---- MODULE Spec2Model ----
(***************************************************************************)
(* Model of the content-generation core of ai-content-creator-backend:    *)
(* AIService.generateContent with its result cache (node-cache, one hour  *)
(* TTL), the ordered chain of text-generation providers and the template  *)
(* fallback, and the routes POST /generate and POST /batch in front of    *)
(* it.                                                                     *)
(*                                                                         *)
(* Spec is the system: invocations of generateContent made by             *)
(* POST /generate, the cache and the clock.  LiveSpec adds clients that   *)
(* disconnect, and fairness.  SpecClient, SpecText and SpecHttp apply     *)
(* the provider client, the text builders and the request validation of   *)
(* the routes to inputs drawn from bounded sets.  SpecKey computes cache  *)
(* keys of pairs of requests, SpecBatch runs one POST /batch beside a     *)
(* call of POST /generate.  SpecContent is the content store behind the   *)
(* content routes, SpecAuth the users and API keys behind the auth        *)
(* routes, SpecGuest a guest key used on POST /generate behind the rate   *)
(* limiter.                                                                *)
(*                                                                         *)
(* A JavaScript string is modelled as a sequence of text chunks; a topic  *)
(* is a sequence of one-character chunks, so that hashString and the      *)
(* whitespace removal of the social template work on its characters.      *)
(* A JavaScript value is a record [t, s, n] (type tag, string, number).   *)
(* Time is counted in seconds.                                             *)
(***************************************************************************)
EXTENDS Integers, Sequences, FiniteSets, TLC

VARIABLES now, providers, cache, call, disconnected, client, builder, http,
          fingerprint, batch, contentStore, users, apiKeys, objects, pending,
          limiter, clock, reply, ledger

\* the system: clock, provider list, cache, generateContent invocations
coreVars == <<now, providers, cache, call>>

\* the function applications of SpecClient, SpecText and SpecHttp
pureVars == <<client, builder, http>>

\* the content store and the key maps of the routes around the core, the
\* clock they read, their last answer and the record of what was asked
crudVars == <<contentStore, users, apiKeys, objects, pending, limiter, clock,
              reply, ledger>>

\* the users and keys of the auth routes, the user objects both maps refer
\* to, the registrations that wait for bcrypt, and the hits aiLimiter counts
authVars == <<users, apiKeys, objects, pending, limiter>>

\* the state of the specifications beside Spec, LiveSpec, SpecClient,
\* SpecText and SpecHttp
sideVars == <<fingerprint, batch, crudVars>>

vars == <<now, providers, cache, call, disconnected, client, builder, http,
          fingerprint, batch, contentStore, users, apiKeys, objects, pending,
          limiter, clock, reply, ledger>>

----------------------------------------------------------------------------
(* Bounds of the model *)

\* generateContent invocations in one behaviour
MaxCalls == 2
\* clock steps in one behaviour
MaxTicks == 2

(* Program constants *)

\* new NodeCache({ stdTTL: 3600 }), seconds
StdTTL == 3600
\* const timeout = 30000 (milliseconds), here in seconds
Timeout == 30

Calls == 1..MaxCalls

----------------------------------------------------------------------------
(* JavaScript values *)

Undefined == [t |-> "undefined", s |-> <<>>, n |-> 0]
JsStr(s) == [t |-> "string", s |-> s, n |-> 0]
JsNum(n) == [t |-> "number", s |-> <<>>, n |-> n]
\* the array []
EmptyArray == [t |-> "array", s |-> <<>>, n |-> 0]

\* ToBoolean, as used by `if (cached)`, `if (result)` and `||`
Truthy(v) ==
    \/ v.t = "string" /\ v.s # <<>>
    \/ v.t = "number" /\ v.n # 0
    \/ v.t = "function"
    \/ v.t = "array"

\* a || b
JsOr(a, b) == IF Truthy(a) THEN a ELSE b

\* The tables of the service (contentTemplates, toneModifiers,
\* languageInstructions, templates) are object literals: table[key] finds,
\* besides the listed keys, the properties every object inherits from
\* Object.prototype, which are functions.  Two of them stand for all.
ObjectPrototypeKeys == {"constructor", "toString"}

\* String(f) of an inherited function
NativeCode(key) ==
    IF key = "constructor" THEN "function Object() { [native code] }"
    ELSE "function toString() { [native code] }"

\* table[key] for an inherited key
Inherited(key) == [t |-> "function", s |-> <<NativeCode(key)>>, n |-> 0]

\* what a function call ends with: a returned value or a thrown Error
Return(v) == [thrown |-> FALSE, v |-> v]
Throw == [thrown |-> TRUE, v |-> Undefined]

----------------------------------------------------------------------------
(* Requests *)

\* the characters after the first ones of every topic of the model
Filler == <<"x", "x", "x", "x", "x", "x", "x", "x">>

TopicAa == <<"A", "a">> \o Filler
TopicBB == <<"B", "B">> \o Filler
TopicCSpaceC == <<"C", " ", "c">> \o Filler

\* str.charCodeAt(i)
charCodeAt(c) ==
    CASE c = "A" -> 65
      [] c = "B" -> 66
      [] c = "C" -> 67
      [] c = "a" -> 97
      [] c = "c" -> 99
      [] c = "x" -> 120
      [] c = " " -> 32
      [] OTHER -> 63

Request(topic, contentType, language, tone) ==
    [prompt |-> topic, contentType |-> contentType,
     language |-> language, tone |-> tone]

\* the requests of the model, which pass the validation of POST /generate:
\* two that differ only in topics whose hashes collide (Aa..., BB...), and
\* one of another content type, language and tone
Requests ==
    { Request(TopicAa, "blog", "english", "professional"),
      Request(TopicBB, "blog", "english", "professional"),
      Request(TopicCSpaceC, "social", "spanish", "casual") }

NoRequest == Request(<<>>, "", "", "")

----------------------------------------------------------------------------
(* hashString and the cache key *)

\* a round without the subtraction, (hash << 5) + char: 32 * hash + char
HashWrap_ShiftOnly(hash, char) ==
    LET lo == hash % 65536
        hi == hash \div 65536
        low == 32 * lo + char
        high == 32 * hi + (low \div 65536)
    IN  (((high + 32768) % 65536) - 32768) * 65536 + (low % 65536)

\* hash = ((hash << 5) - hash) + char; hash = hash & hash: 31 * hash + char
\* wrapped to a signed 32-bit integer.  The product is formed on the two
\* 16-bit halves of hash, so that no intermediate value leaves 32 bits.
HashWrap(hash, char) ==
    LET lo == hash % 65536
        hi == hash \div 65536
        low == 31 * lo + char
        high == 31 * hi + (low \div 65536)
    IN  (((high + 32768) % 65536) - 32768) * 65536 + (low % 65536)

\* one round of the loop; the hash so far is evaluated once
HashStep(hash, char) ==
    CHOOSE next \in {HashWrap(h, char) : h \in {hash}} : TRUE

RECURSIVE hashFrom(_, _, _)
hashFrom(str, i, hash) ==
    IF i > Len(str) THEN hash
    ELSE hashFrom(str, i + 1, HashStep(hash, charCodeAt(str[i])))

hashString(str) == hashFrom(str, 1, 0)

\* A cache key is a string in which hyphens separate the parts.  The model
\* keeps a key as the sequence of its pieces, the substrings between its
\* hyphens: two keys are the same string exactly when their pieces are the
\* same.  Of the strings of the model only the two below hold a hyphen.
Pieces(str) ==
    CASE str = "english-casual" -> <<"english", "casual">>
      [] str = "casual-professional" -> <<"casual", "professional">>
      [] OTHER -> <<str>>

\* the least 32-bit integer, whose magnitude is no 32-bit integer
MinInt32 == -2147483647 - 1

\* hash.toString(): the decimal digits, after a hyphen when hash is
\* negative
Decimal(hash) ==
    IF hash = MinInt32 THEN <<"", "2147483648">>
    ELSE IF hash < 0 THEN <<"", ToString(-hash)>>
    ELSE <<ToString(hash)>>

\* a key that leaves the tone out
CacheKey_WithoutTone(r) ==
    Pieces(r.contentType) \o Pieces(r.language)
        \o Decimal(hashString(r.prompt))

\* `${contentType}-${language}-${tone}-${this.hashString(prompt)}`
CacheKey(r) ==
    Pieces(r.contentType) \o Pieces(r.language) \o Pieces(r.tone)
        \o Decimal(hashString(r.prompt))

----------------------------------------------------------------------------
(* The result cache: node-cache with stdTTL 3600.  An entry is            *)
(* [k, v, t, w]: key, value and the time t at which it expires; w records *)
(* the time of the write that made the entry.                             *)

Entries(c, k) == {e \in c : e.k = k}

\* an entry is served while its expiry time has not passed
Alive(e, time) == e.t >= time

\* a lookup that drops the topic hash from the key and so finds nothing
CacheGet_WithoutHash(c, k, time) ==
    IF \E e \in Entries(c, <<k[1], k[2], k[3]>>) : Alive(e, time)
    THEN (CHOOSE e \in Entries(c, <<k[1], k[2], k[3]>>) : Alive(e, time)).v
    ELSE Undefined

\* cache.get(key): the value of a live entry, undefined otherwise
CacheGet(c, k, time) ==
    IF \E e \in Entries(c, k) : Alive(e, time)
    THEN (CHOOSE e \in Entries(c, k) : Alive(e, time)).v
    ELSE Undefined

\* a lookup that takes the entry it finds out of the cache
CacheAfterGet_Evicts(c, k, time) == {e \in c : e.k # k}

\* a lookup that restarts the lifetime of the entry it finds
CacheAfterGet_Sliding(c, k, time) ==
    {e \in c : e.k # k} \cup
        {[e EXCEPT !.t = time + StdTTL] :
            e \in {x \in c : x.k = k /\ Alive(x, time)}}

\* the cache after cache.get(key): an expired entry found by the lookup is
\* deleted; a live entry is left as it is
CacheAfterGet(c, k, time) ==
    {e \in c : e.k # k \/ Alive(e, time)}

\* a write with the lifetime taken as 3600 * 1000
CacheSet_Milliseconds(c, k, v, time) ==
    {e \in c : e.k # k}
        \cup {[k |-> k, v |-> v, t |-> time + StdTTL * 1000, w |-> time]}

\* a write that leaves the earlier entry of the key in place
CacheSet_KeepsOld(c, k, v, time) ==
    c \cup {[k |-> k, v |-> v, t |-> time + StdTTL, w |-> time]}

\* a write that is dropped when the key has a live entry
CacheSet_IfAbsent(c, k, v, time) ==
    IF \E e \in c : e.k = k /\ Alive(e, time) THEN c
    ELSE {e \in c : e.k # k}
            \cup {[k |-> k, v |-> v, t |-> time + StdTTL, w |-> time]}

\* cache.set(key, value): the entry of the key is replaced; it expires
\* stdTTL seconds after the write
CacheSet(c, k, v, time) ==
    {e \in c : e.k # k} \cup {[k |-> k, v |-> v, t |-> time + StdTTL, w |-> time]}

\* the periodic check of node-cache deletes every expired entry
CacheAfterCheck(c, time) == {e \in c : Alive(e, time)}

----------------------------------------------------------------------------
(* Providers *)

ProviderNames == <<"huggingface", "ollama-proxy", "local-llm">>

\* this.providers, with the enabled flags of one deployment
ProviderList(flags) ==
    [i \in 1..Len(ProviderNames) |->
        [name |-> ProviderNames[i], enabled |-> flags[i]]]

\* the enabled flags of the deployments of the model: as shipped, with
\* the first provider disabled as well, and with none enabled
EnabledFlags ==
    { <<TRUE, TRUE, FALSE>>, <<FALSE, TRUE, FALSE>>, <<FALSE, FALSE, FALSE>> }

\* the provider list without the filter on enabled
EnabledProviders_Unfiltered(ps) == ps

\* this.providers.filter(p => p.enabled)
EnabledProviders(ps) == SelectSeq(ps, LAMBDA p : p.enabled)

----------------------------------------------------------------------------
(* Response bodies.  A body is null, a string, an array of objects or an  *)
(* object; an object has the fields below (Undefined when missing).       *)

Obj(generated_text, response, text, content) ==
    [generated_text |-> generated_text, response |-> response,
     text |-> text, content |-> content]

EmptyObj == Obj(Undefined, Undefined, Undefined, Undefined)

Body(kind, items, obj) == [kind |-> kind, items |-> items, obj |-> obj]

Gen1 == JsStr(<<"generated text 1">>)
Gen2 == JsStr(<<"generated text 2">>)
EmptyString == JsStr(<<>>)

Bodies ==
    { Body("null", <<>>, EmptyObj),
      Body("string", <<>>, EmptyObj),
      Body("array", <<>>, EmptyObj),
      Body("array", <<Obj(Gen1, Undefined, Undefined, Undefined)>>, EmptyObj),
      Body("object", <<>>, Obj(JsNum(42), Undefined, Undefined, Undefined)),
      Body("object", <<>>, Obj(EmptyString, Undefined, Undefined, Undefined)),
      Body("object", <<>>, Obj(EmptyArray, Undefined, Undefined, Undefined)),
      Body("object", <<>>, Obj(Undefined, EmptyString, Gen2, Undefined)) }

\* how axios.post settles: rejected (network error, timeout, non-2xx
\* status) or fulfilled with a response body
Rejected(why) == [rejected |-> TRUE, why |-> why,
                  data |-> Body("null", <<>>, EmptyObj)]
Fulfilled(data) == [rejected |-> FALSE, why |-> "", data |-> data]

Outcomes ==
    {Rejected(w) : w \in {"network", "timeout", "status"}}
        \cup {Fulfilled(b) : b \in Bodies}

\* data.<field>: a TypeError on null, undefined on a string or an array
Field(data, f) ==
    CASE data.kind = "null" -> Throw
      [] data.kind = "object" -> Return(data.obj[f])
      [] OTHER -> Return(Undefined)

\* an extraction for ollama-proxy and local-llm that prefers the text field
parseResponse_TextFirst(data, providerName) ==
    CASE providerName = "huggingface" ->
            IF data.kind = "array"
            THEN IF Len(data.items) = 0 THEN Return(Undefined)
                 ELSE Return(data.items[1].generated_text)
            ELSE Field(data, "generated_text")
      [] OTHER ->
            IF Field(data, "text").thrown THEN Throw
            ELSE Return(JsOr(Field(data, "text").v, Field(data, "response").v))

\* parseResponse(data, providerName)
parseResponse(data, providerName) ==
    CASE providerName = "huggingface" ->
            IF data.kind = "array"
            THEN IF Len(data.items) = 0 THEN Return(Undefined)
                 ELSE Return(data.items[1].generated_text)
            ELSE Field(data, "generated_text")
      [] providerName \in {"ollama-proxy", "local-llm"} ->
            IF Field(data, "response").thrown THEN Throw
            ELSE Return(JsOr(Field(data, "response").v, Field(data, "text").v))
      [] OTHER ->
            IF Field(data, "content").thrown THEN Throw
            ELSE Return(JsOr(Field(data, "content").v,
                        JsOr(Field(data, "text").v,
                             JsStr(<<"JSON.stringify(data)">>))))

\* callProvider(provider, prompt), given how its one axios.post settles
callProvider(providerName, outcome) ==
    IF providerName \notin {"huggingface", "ollama-proxy", "local-llm"}
    THEN Throw
    ELSE IF outcome.rejected THEN Throw
    ELSE parseResponse(outcome.data, providerName)

----------------------------------------------------------------------------
(* The prompt sent to the providers *)

\* a template; isTemplate is false for a value that has neither a
\* systemPrompt nor a structure
Template(systemPrompt, structure) ==
    [isTemplate |-> TRUE, systemPrompt |-> systemPrompt,
     structure |-> structure]

\* an inherited function taken for a template: its systemPrompt and its
\* structure are undefined
NotATemplate ==
    [isTemplate |-> FALSE, systemPrompt |-> "undefined", structure |-> <<>>]

\* this.contentTemplates[contentType] || this.contentTemplates.document
\* (of each systemPrompt the model keeps the first sentence)
contentTemplates(contentType) ==
    CASE contentType \in ObjectPrototypeKeys -> NotATemplate
      [] contentType = "presentation" ->
            Template("You are an expert presentation creator. ...",
                     <<"Introduction", "Problem/Opportunity", "Solution",
                       "Benefits", "Implementation", "Conclusion">>)
      [] contentType = "social" ->
            Template("You are a social media expert. ...",
                     <<"Hook", "Value Proposition", "Call to Action",
                       "Hashtags">>)
      [] contentType = "blog" ->
            Template("You are a content marketing expert. ...",
                     <<"Headline", "Introduction", "Main Points", "Examples",
                       "Conclusion", "Call to Action">>)
      [] contentType = "email" ->
            Template("You are an email marketing specialist. ...",
                     <<"Subject Line", "Opening", "Value Proposition",
                       "Benefits", "Call to Action", "Closing">>)
      [] OTHER ->
            Template("You are a professional document writer. ...",
                     <<"Executive Summary", "Introduction", "Main Content",
                       "Analysis", "Recommendations", "Conclusion">>)

\* this.languageInstructions[language] || ''
languageInstructions(language) ==
    CASE language \in ObjectPrototypeKeys -> <<NativeCode(language)>>
      [] language = "spanish" ->
            <<"Write the entire content in Spanish (Espanol).">>
      [] language = "french" ->
            <<"Write the entire content in French (Francais).">>
      [] language = "german" ->
            <<"Write the entire content in German (Deutsch).">>
      [] language = "chinese" ->
            <<"Write the entire content in Chinese.">>
      [] language = "japanese" ->
            <<"Write the entire content in Japanese.">>
      [] language = "portuguese" ->
            <<"Write the entire content in Portuguese (Portugues).">>
      [] OTHER -> <<>>

\* this.toneModifiers[tone] || ''
toneModifiers(tone) ==
    CASE tone \in ObjectPrototypeKeys -> <<NativeCode(tone)>>
      [] tone = "professional" ->
            <<"Use a professional, business-appropriate tone with formal language.">>
      [] tone = "casual" ->
            <<"Use a casual, friendly, and conversational tone that feels approachable.">>
      [] tone = "creative" ->
            <<"Use a creative, innovative, and inspiring tone that sparks imagination.">>
      [] tone = "persuasive" ->
            <<"Use a persuasive, compelling, and action-oriented tone that motivates.">>
      [] tone = "informative" ->
            <<"Use an informative, educational, and clear tone that teaches.">>
      [] tone = "humorous" ->
            <<"Use a humorous, light-hearted, and entertaining tone that engages.">>
      [] OTHER -> <<>>

\* template.structure.join(sep)
RECURSIVE Join(_, _)
Join(names, sep) ==
    IF Len(names) = 0 THEN <<>>
    ELSE IF Len(names) = 1 THEN <<names[1]>>
    ELSE <<names[1], sep>> \o Join(Tail(names), sep)

\* a prompt that names the structure before the topic
PromptText_TopicLast(userPrompt, template, language, tone) ==
    <<template.systemPrompt, "\n\n">>
        \o languageInstructions(language) \o <<"\n">>
        \o toneModifiers(tone)
        \o <<"\n\nPlease create high-quality content following this structure: ">>
        \o Join(template.structure, " -> ")
        \o <<"\n\nTopic: ">> \o userPrompt
        \o <<"\n\nMake it comprehensive, engaging, and actionable.">>

\* the text of the prompt; " -> " stands for the arrow between the
\* section names
PromptText(userPrompt, template, language, tone) ==
    <<template.systemPrompt, "\n\n">>
        \o languageInstructions(language) \o <<"\n">>
        \o toneModifiers(tone) \o <<"\n\nTopic: ">> \o userPrompt
        \o <<"\n\nPlease create high-quality content following this structure: ">>
        \o Join(template.structure, " -> ")
        \o <<"\n\nMake it comprehensive, engaging, and actionable.">>

\* buildPrompt(userPrompt, template, language, tone): template.structure.join
\* is a TypeError when template.structure is undefined
buildPrompt(userPrompt, template, language, tone) ==
    IF ~template.isTemplate THEN Throw
    ELSE Return(JsStr(PromptText(userPrompt, template, language, tone)))

\* template and fullPrompt of generateContent
FullPrompt(r) ==
    buildPrompt(r.prompt, contentTemplates(r.contentType), r.language, r.tone)

----------------------------------------------------------------------------
(* The fallback generator.  Of each template the model keeps the prefix   *)
(* lines, the first line, one later line that interpolates the topic and  *)
(* the footer.                                                             *)

\* a language marker that is written for english too
Prefix_Always(language) == <<"[Content in ", language, "]\n\n">>

\* language !== 'english' ? `[Content in ${language}]\n\n` : ''
Prefix(language) ==
    IF language # "english" THEN <<"[Content in ", language, "]\n\n">>
    ELSE <<>>

\* tone !== 'professional' ? `[${tone} tone]\n\n` : ''
ToneNote(tone) ==
    IF tone # "professional" THEN <<"[", tone, " tone]\n\n">> ELSE <<>>

\* prompt.replace(/\s+/g, '')
RemoveWhitespace(str) == SelectSeq(str, LAMBDA c : c # " ")

generatePresentationTemplate(prompt, language, tone) ==
    Prefix(language) \o ToneNote(tone) \o <<"# ">> \o prompt
        \o <<"\n\n## Slide 1: Introduction\n* Welcome to ">> \o prompt
        \o <<"\n...\n*Generated by AI Content Creator Pro*">>

generateDocumentTemplate(prompt, language, tone) ==
    Prefix(language) \o ToneNote(tone) \o <<"# ">> \o prompt
        \o <<"\n\n## Executive Summary\nThis comprehensive document explores ">>
        \o prompt
        \o <<", providing ...\n*Generated by AI Content Creator Pro*">>

generateSocialTemplate(prompt, language, tone) ==
    Prefix(language) \o ToneNote(tone)
        \o <<"Ready to transform your approach to ">> \o prompt
        \o <<"? Here's what you need to know!\n...\n#Innovation #">>
        \o RemoveWhitespace(prompt)
        \o <<" #Success ...\n*Created with AI Content Creator Pro*">>

generateBlogTemplate(prompt, language, tone) ==
    Prefix(language) \o ToneNote(tone) \o <<"# The Ultimate Guide to ">>
        \o prompt
        \o <<": Everything You Need to Know\n...\n## Conclusion\n">> \o prompt
        \o <<" represents ...\n*Published with AI Content Creator Pro*">>

generateEmailTemplate(prompt, language, tone) ==
    Prefix(language) \o ToneNote(tone)
        \o <<"Subject: Transform Your Approach to ">> \o prompt
        \o <<" (Limited Time)\n\nHi [Name],\n...developments around ">>
        \o prompt
        \o <<".\n...\n*Crafted with AI Content Creator Pro*">>

\* templates[contentType] || templates.document
generateFallbackContent(prompt, contentType, language, tone) ==
    CASE contentType \in ObjectPrototypeKeys -> Inherited(contentType)
      [] contentType = "presentation" ->
            JsStr(generatePresentationTemplate(prompt, language, tone))
      [] contentType = "social" ->
            JsStr(generateSocialTemplate(prompt, language, tone))
      [] contentType = "blog" ->
            JsStr(generateBlogTemplate(prompt, language, tone))
      [] contentType = "email" ->
            JsStr(generateEmailTemplate(prompt, language, tone))
      [] OTHER ->
            JsStr(generateDocumentTemplate(prompt, language, tone))

\* a generator whose output carries the time of the call
Fallback_Dated(r) ==
    LET out == generateFallbackContent(r.prompt, r.contentType, r.language,
                                       r.tone)
    IN  [out EXCEPT !.s = @ \o <<"generated at", ToString(now)>>]

\* this.generateFallbackContent(prompt, contentType, language, tone)
Fallback(r) ==
    generateFallbackContent(r.prompt, r.contentType, r.language, r.tone)

----------------------------------------------------------------------------
(* One generateContent invocation, made by the handler of POST /generate *)
(* for a request that passed its validation.  pc: idle (not called yet), *)
(* await (a provider request is outstanding), done (returned ret), threw  *)
(* (raised an error to its caller).  hit: it returned what the cache      *)
(* held.  chain is the filtered provider list of the invocation, reqs the *)
(* providers it sent a request to, res what each callProvider call        *)
(* yielded, fullPrompt the prompt it sends.  status is the HTTP status    *)
(* the handler answers with once the invocation has ended (NoStatus       *)
(* before).                                                                *)

NoStatus == 0
\* res.json(...)
StatusOk == 200
\* res.status(400)
StatusBadRequest == 400
\* res.status(500)
StatusError == 500

\* the value of client, builder and http in the specifications that do not
\* use them
NoApplication == [applied |-> "nothing"]

IdleCall ==
    [pc |-> "idle", req |-> NoRequest, hit |-> FALSE, chain |-> <<>>,
     fullPrompt |-> <<>>, reqs |-> <<>>, res |-> <<>>, ret |-> Undefined,
     status |-> NoStatus]

\* the metadata envelope of POST /generate: content.split(' ').length and
\* content.length; split is a method of strings only, so the call is a
\* TypeError for any other content
Envelope(content) ==
    IF content.t = "string" THEN Return(content) ELSE Throw

\* the try block of POST /generate after generateContent has ended, and
\* its catch block: c is the invocation
Respond(c) ==
    [c EXCEPT !.status =
        IF c.pc = "threw" \/ Envelope(c.ret).thrown THEN StatusError
        ELSE StatusOk]

Names(ps) == [i \in 1..Len(ps) |-> ps[i].name]

\* what a callProvider call yielded, as kept in res: its truthy result,
\* or undefined when it threw or returned nothing
Yield(completion) ==
    IF ~completion.thrown /\ Truthy(completion.v) THEN completion.v
    ELSE Undefined

\* `if (result)` inside the try block: the call returned a truthy value
Succeeds(completion) == ~completion.thrown /\ Truthy(completion.v)

\* catch (error) { console.warn(...); continue; }: an error thrown by
\* callProvider is not passed on to the caller of generateContent
ErrorSurfaces(completion) == FALSE

\* a loop that tries the provider at position i once more
NextIndex_Retry(i) == i

\* for (const provider of ...): the position after position i
NextIndex(i) == i + 1

\* the provider's result is returned without being cached
CacheAfterResult_NotStored(c, k, v, time) == c

\* the fallback content is returned without being cached
CacheAfterFallback_NotStored(c, r, time) == c

\* cache.set(cacheKey, result)
CacheAfterResult(c, k, v, time) == CacheSet(c, k, v, time)

\* cache.set(cacheKey, fallbackResult)
CacheAfterFallback(c, r, time) == CacheSet(c, CacheKey(r), Fallback(r), time)

\* the fallback content is returned
FinishWithFallback(c) ==
    Respond([c EXCEPT !.pc = "done", !.ret = Fallback(c.req)])

\* the provider's result is returned
FinishWithResult(c, v) ==
    Respond([c EXCEPT !.pc = "done", !.ret = v])

\* an error leaves generateContent
FinishWithError(c) ==
    Respond([c EXCEPT !.pc = "threw"])

\* the loop sends its request, with c.fullPrompt, to the provider at
\* position i of the chain
SendRequest(c, i) ==
    [c EXCEPT !.pc = "await", !.reqs = Append(@, c.chain[i])]

\* generateContent(r) up to its first await (or to its end), for the
\* invocation record c, the provider list ps, the cache cch and the time:
\* the invocation and the cache afterwards
Started(c, r, ps, cch, time) ==
    LET k == CacheKey(r)
        cached == CacheGet(cch, k, time)
        looked == CacheAfterGet(cch, k, time)
        built == FullPrompt(r)
        c0 == [c EXCEPT !.req = r, !.chain = Names(EnabledProviders(ps))]
        c1 == [c0 EXCEPT !.fullPrompt = built.v.s]
    IN  IF Truthy(cached)
        THEN [call |-> Respond([c0 EXCEPT !.pc = "done", !.hit = TRUE,
                                         !.chain = <<>>, !.ret = cached]),
              cache |-> looked]
        ELSE IF built.thrown
        THEN [call |-> FinishWithError(c0), cache |-> looked]
        ELSE IF Len(c0.chain) = 0
        THEN [call |-> FinishWithFallback(c1),
              cache |-> CacheAfterFallback(looked, r, time)]
        ELSE [call |-> SendRequest(c1, 1), cache |-> looked]

\* generateContent up to its first await (or to its end)
GenerateContent(p, r) ==
    /\ call[p].pc = "idle"
    /\ \A q \in Calls : q < p => call[q].pc # "idle"
    /\ \E started \in {Started(call[p], r, providers, cache, now)} :
          /\ call' = [call EXCEPT ![p] = started.call]
          /\ cache' = started.cache
    /\ UNCHANGED <<now, providers, disconnected, pureVars, sideVars>>

\* the ways the outstanding callProvider call of invocation c can end: one
\* for each way its axios.post can settle
Completions(c) ==
    IF c.pc # "await" THEN {}
    ELSE {callProvider(c.reqs[Len(c.reqs)], o) : o \in Outcomes}

\* the outstanding callProvider call of invocation c ends with completion,
\* and generateContent runs on to its next await or to its end: the
\* invocation and the cache afterwards
Settled(c, completion, cch, time) ==
    LET k == CacheKey(c.req)
        i == Len(c.reqs)
        c1 == [c EXCEPT !.res = Append(@, Yield(completion))]
    IN  IF completion.thrown /\ ErrorSurfaces(completion)
        THEN [call |-> FinishWithError(c1), cache |-> cch]
        ELSE IF Succeeds(completion)
        THEN [call |-> FinishWithResult(c1, completion.v),
              cache |-> CacheAfterResult(cch, k, completion.v, time)]
        ELSE IF NextIndex(i) <= Len(c.chain)
        THEN [call |-> SendRequest(c1, NextIndex(i)), cache |-> cch]
        ELSE [call |-> FinishWithFallback(c1),
              cache |-> CacheAfterFallback(cch, c.req, time)]

\* the outstanding callProvider call of invocation p ends, and
\* generateContent runs on to its next await or to its end
ProviderSettles(p, completion) ==
    /\ call[p].pc = "await"
    /\ completion \in Completions(call[p])
    /\ \E settled \in {Settled(call[p], completion, cache, now)} :
          /\ call' = [call EXCEPT ![p] = settled.call]
          /\ cache' = settled.cache
    /\ UNCHANGED <<now, providers, disconnected, pureVars, sideVars>>

\* the clock of the model advances in steps of StdTTL seconds
TickSteps == {StdTTL}

\* clock steps taken so far
TicksTaken == now \div StdTTL

\* d seconds pass.  A request settles within Timeout seconds (by an answer,
\* an error or the timeout), so a step longer than that is not taken while
\* a request is outstanding.
Tick(d) ==
    /\ TicksTaken < MaxTicks
    /\ d > Timeout => \A p \in Calls : call[p].pc # "await"
    /\ now' = now + d
    /\ UNCHANGED <<providers, cache, call, disconnected, pureVars,
                   sideVars>>

\* the periodic check of the cache deletes the expired entries
CheckData ==
    /\ CacheAfterCheck(cache, now) # cache
    /\ cache' = CacheAfterCheck(cache, now)
    /\ UNCHANGED <<now, providers, call, disconnected, pureVars, sideVars>>

\* the routes around the core at rest
CrudAtRest ==
    /\ contentStore = {}
    /\ users = <<>>
    /\ apiKeys = {}
    /\ objects = <<>>
    /\ pending = <<>>
    /\ limiter = <<>>
    /\ clock = 0
    /\ reply = NoApplication
    /\ ledger = {}

SidesAtRest ==
    /\ fingerprint = NoApplication
    /\ batch = NoApplication
    /\ CrudAtRest

\* the system after construction
InitCore ==
    /\ now = 0
    /\ providers \in {ProviderList(f) : f \in EnabledFlags}
    /\ cache = {}
    /\ call = [p \in Calls |-> IdleCall]
    /\ disconnected = {}

Init ==
    /\ InitCore
    /\ client = NoApplication
    /\ builder = NoApplication
    /\ http = NoApplication
    /\ SidesAtRest

Next ==
    \/ \E p \in Calls, r \in Requests : GenerateContent(p, r)
    \/ \E p \in Calls : \E completion \in Completions(call[p]) :
            ProviderSettles(p, completion)
    \/ \E d \in TickSteps : Tick(d)
    \/ CheckData

Spec == Init /\ [][Next]_vars

----------------------------------------------------------------------------
(* Clients that go away, and progress.  The handler of POST /generate     *)
(* registers no listener for the end of the connection and passes no      *)
(* cancellation to generateContent or to axios.post.                      *)

\* a disconnect that abandons the invocation
AfterDisconnect_Aborts(c) == [c EXCEPT !.pc = "aborted"]

\* the invocation of a request whose client has disconnected: as it was
AfterDisconnect(c) == c

\* the client of the request that made invocation p closes the connection
\* while the generation is in flight
ClientDisconnects(p) ==
    /\ call[p].pc = "await"
    /\ p \notin disconnected
    /\ disconnected' = disconnected \cup {p}
    /\ call' = [call EXCEPT ![p] = AfterDisconnect(call[p])]
    /\ UNCHANGED <<now, providers, cache, pureVars, sideVars>>

\* invocations in one behaviour of LiveSpec
MaxLiveCalls == 1

LiveCalls == 1..MaxLiveCalls

NextLive ==
    \/ \E p \in LiveCalls, r \in Requests : GenerateContent(p, r)
    \/ \E p \in LiveCalls : \E completion \in Completions(call[p]) :
            ProviderSettles(p, completion)
    \/ \E d \in TickSteps : Tick(d)
    \/ CheckData
    \/ \E p \in LiveCalls : ClientDisconnects(p)

\* every provider call ends: axios.post settles by an answer, by an error
\* or, after Timeout seconds, by the timeout
EveryProviderCallEnds ==
    \A p \in LiveCalls :
        WF_vars(\E completion \in Completions(call[p]) :
                    ProviderSettles(p, completion))

LiveSpec == Init /\ [][NextLive]_vars /\ EveryProviderCallEnds

----------------------------------------------------------------------------
(* The provider client on its own: callProvider for every provider name   *)
(* and every way its request can settle, and parseResponse for every      *)
(* response body.                                                          *)

\* the system at rest, for the specifications that apply single functions
CoreAtRest ==
    /\ now = 0
    /\ providers = ProviderList(<<TRUE, TRUE, FALSE>>)
    /\ cache = {}
    /\ call = [p \in Calls |-> IdleCall]
    /\ disconnected = {}

\* response bodies: those of Bodies and further shapes
ClientBodies ==
    Bodies \cup
    { Body("array", <<EmptyObj>>, EmptyObj),
      Body("object", <<>>, EmptyObj),
      Body("object", <<>>, Obj(Gen1, Undefined, Undefined, Undefined)),
      Body("object", <<>>, Obj(EmptyString, Undefined, Undefined, Undefined)),
      Body("object", <<>>, Obj(Undefined, Gen1, Gen2, Undefined)),
      Body("object", <<>>, Obj(Undefined, Gen1, Undefined, Undefined)),
      Body("object", <<>>, Obj(Undefined, Undefined, Gen2, Undefined)),
      Body("object", <<>>, Obj(Undefined, Undefined, Undefined, Gen1)) }

ClientOutcomes ==
    {Rejected(w) : w \in {"network", "timeout", "status"}}
        \cup {Fulfilled(b) : b \in ClientBodies}

\* provider.name: the three of this.providers and one that is not among
\* them
ClientProviders == {"huggingface", "ollama-proxy", "local-llm", "other-llm"}

InitClient ==
    /\ CoreAtRest
    /\ client \in {[applied |-> "nothing", provider |-> n, outcome |-> o,
                     out |-> Return(Undefined)] :
                        n \in ClientProviders, o \in ClientOutcomes}
    /\ builder = NoApplication
    /\ http = NoApplication
    /\ SidesAtRest

\* callProvider(provider, prompt) while its request settles as
\* client.outcome
CallProvider ==
    /\ client.applied = "nothing"
    /\ client' = [client EXCEPT
                    !.applied = "callProvider",
                    !.out = callProvider(client.provider, client.outcome)]
    /\ UNCHANGED <<coreVars, disconnected, builder, http, sideVars>>

\* parseResponse(response.data, providerName) on a response body
ParseResponse ==
    /\ client.applied = "nothing"
    /\ ~client.outcome.rejected
    /\ client' = [client EXCEPT
                    !.applied = "parseResponse",
                    !.out = parseResponse(client.outcome.data,
                                          client.provider)]
    /\ UNCHANGED <<coreVars, disconnected, builder, http, sideVars>>

NextClient == CallProvider \/ ParseResponse

SpecClient == InitClient /\ [][NextClient]_vars

----------------------------------------------------------------------------
(* The text builders on their own: the template choice and buildPrompt of *)
(* generateContent, and generateFallbackContent, for topics, content      *)
(* types, languages and tones inside and outside the lists of the         *)
(* service.                                                                *)

TextTopics == {TopicAa, TopicCSpaceC}

TextContentTypes ==
    {"presentation", "document", "social", "blog", "email", "video",
     "constructor"}

TextLanguages == {"english", "spanish", "klingon", "constructor"}

TextTones == {"professional", "casual", "sarcastic", "toString"}

InitText ==
    /\ CoreAtRest
    /\ client = NoApplication
    /\ builder \in {[applied |-> "nothing", req |-> Request(p, c, l, t),
                      out |-> Return(Undefined)] :
                        p \in TextTopics, c \in TextContentTypes,
                        l \in TextLanguages, t \in TextTones}
    /\ http = NoApplication
    /\ SidesAtRest

\* generateContent from the choice of the template to the prompt
BuildsPrompt ==
    /\ builder.applied = "nothing"
    /\ builder' = [builder EXCEPT !.applied = "buildPrompt",
                                  !.out = FullPrompt(builder.req)]
    /\ UNCHANGED <<coreVars, disconnected, client, http, sideVars>>

\* generateFallbackContent(prompt, contentType, language, tone)
GeneratesFallback ==
    /\ builder.applied = "nothing"
    /\ builder' = [builder EXCEPT !.applied = "generateFallbackContent",
                                  !.out = Return(Fallback(builder.req))]
    /\ UNCHANGED <<coreVars, disconnected, client, http, sideVars>>

NextText == BuildsPrompt \/ GeneratesFallback

SpecText == InitText /\ [][NextText]_vars

----------------------------------------------------------------------------
(* The request validation of the routes.  A request body of POST          *)
(* /generate is an item [prompt, contentType, language, tone]; the body   *)
(* of POST /batch holds a sequence of items in requests.  A field that is *)
(* missing from the body has the value Absent (a missing prompt is the    *)
(* empty string to isLength).  http.calls holds the arguments of the      *)
(* generateContent calls of the handler, as generateContent binds them.   *)

Absent == "(absent)"

\* isLength({ min: 10, max: 2000 })
MinPromptLength == 10
MaxPromptLength == 2000
\* isArray({ min: 1, max: 5 })
MinBatchLength == 1
MaxBatchLength == 5

\* the lists of isIn
ContentTypes == {"presentation", "document", "social", "blog", "email"}
Languages ==
    {"english", "spanish", "french", "german", "chinese", "japanese",
     "portuguese"}
Tones ==
    {"professional", "casual", "creative", "persuasive", "informative",
     "humorous"}

IsLength(str, min, max) == Len(str) >= min /\ Len(str) <= max

\* .optional().isIn(list): a missing field passes
OptionalIsIn(v, list) == v = Absent \/ v \in list

\* validateGenerateRequest and validationResult(req).isEmpty()
validateGenerateRequest(b) ==
    /\ IsLength(b.prompt, MinPromptLength, MaxPromptLength)
    /\ b.contentType \in ContentTypes
    /\ OptionalIsIn(b.language, Languages)
    /\ OptionalIsIn(b.tone, Tones)

\* the validation chain of POST /batch and validationResult(req).isEmpty()
validateBatchRequest(items) ==
    /\ Len(items) >= MinBatchLength /\ Len(items) <= MaxBatchLength
    /\ \A i \in 1..Len(items) :
          /\ IsLength(items[i].prompt, MinPromptLength, MaxPromptLength)
          /\ items[i].contentType \in ContentTypes

\* .trim()
RECURSIVE TrimLeft(_)
TrimLeft(str) ==
    IF str # <<>> /\ Head(str) = " " THEN TrimLeft(Tail(str)) ELSE str

RECURSIVE TrimRight(_)
TrimRight(str) ==
    IF str # <<>> /\ str[Len(str)] = " "
    THEN TrimRight(SubSeq(str, 1, Len(str) - 1))
    ELSE str

Trim(str) == TrimRight(TrimLeft(str))

\* .escape(): the characters of HTML become entities
EscapeChar(c) ==
    CASE c = "<" -> "&lt;"
      [] c = ">" -> "&gt;"
      [] c = "&" -> "&amp;"
      [] OTHER -> c

Escape(str) == [i \in 1..Len(str) |-> EscapeChar(str[i])]

\* a parameter default: `language = 'english'`
Default(v, d) == IF v = Absent THEN d ELSE v

\* what generateContent binds when POST /generate calls it for body b
GenerateArguments(b) ==
    Request(Escape(Trim(b.prompt)), b.contentType,
            Default(b.language, "english"), Default(b.tone, "professional"))

\* what generateContent binds when POST /batch calls it with an item
BatchArguments(item) ==
    Request(item.prompt, item.contentType,
            Default(item.language, "english"),
            Default(item.tone, "professional"))

\* prompts of request bodies: too short, of the least length, with white
\* space and markup, too long
PromptTooShort == <<"t", "o", "o", " ", "s", "h", "o", "r", "t">>
PromptWithMarkup == <<" ", "<", "b", ">">> \o Filler
PromptTooLong == [i \in 1..(MaxPromptLength + 1) |-> "x"]

HttpPrompts == {PromptTooShort, TopicAa, PromptWithMarkup, PromptTooLong}

\* request bodies of POST /generate
GenerateBodies ==
    {Request(p, c, l, t) :
        p \in HttpPrompts,
        c \in {"blog", "video", "constructor", Absent},
        l \in {Absent, "spanish", "klingon"},
        t \in {Absent, "casual", "sarcastic"}}

\* items of POST /batch
BatchItems ==
    { Request(TopicAa, "blog", Absent, Absent),
      Request(TopicBB, "social", "spanish", "casual"),
      Request(TopicAa, "blog", "klingon", Absent),
      Request(TopicAa, "email", "english", "constructor"),
      Request(PromptTooShort, "blog", "english", "professional"),
      Request(TopicAa, "video", "english", "professional") }

\* items in the requests array of the bodies of the model
MaxItems == 2

RECURSIVE SeqsUpTo(_, _)
SeqsUpTo(S, n) ==
    IF n = 0 THEN {<<>>}
    ELSE LET shorter == SeqsUpTo(S, n - 1)
         IN  shorter \cup {Append(q, x) : q \in shorter, x \in S}

\* requests arrays: every one of up to MaxItems items, and one that is
\* longer than POST /batch accepts
BatchBodies ==
    SeqsUpTo(BatchItems, MaxItems)
        \cup {[i \in 1..(MaxBatchLength + 1) |->
                   Request(TopicAa, "blog", Absent, Absent)]}

HttpRequest(route, items) ==
    [applied |-> "nothing", route |-> route, items |-> items,
     status |-> NoStatus, calls |-> <<>>]

InitHttp ==
    /\ CoreAtRest
    /\ client = NoApplication
    /\ builder = NoApplication
    /\ http \in {HttpRequest("POST /generate", <<b>>) : b \in GenerateBodies}
                \cup {HttpRequest("POST /batch", items) :
                            items \in BatchBodies}
    /\ SidesAtRest

\* POST /generate up to its call of generateContent: the answer 400, or
\* the call (whose course and answer Spec describes)
PostGenerate ==
    /\ http.applied = "nothing"
    /\ http.route = "POST /generate"
    /\ LET b == http.items[1]
       IN  http' =
             IF ~validateGenerateRequest(b)
             THEN [http EXCEPT !.applied = "answered",
                               !.status = StatusBadRequest]
             ELSE [http EXCEPT !.applied = "called",
                               !.calls = <<GenerateArguments(b)>>]
    /\ UNCHANGED <<coreVars, disconnected, client, builder, sideVars>>

\* POST /batch: the answer 400, or one generateContent call for each item
\* in turn and the answer 200 (an error of a call is caught and listed)
PostBatch ==
    /\ http.applied = "nothing"
    /\ http.route = "POST /batch"
    /\ http' =
          IF ~validateBatchRequest(http.items)
          THEN [http EXCEPT !.applied = "answered",
                            !.status = StatusBadRequest]
          ELSE [http EXCEPT
                  !.applied = "answered",
                  !.status = StatusOk,
                  !.calls = [i \in 1..Len(http.items) |->
                                BatchArguments(http.items[i])]]
    /\ UNCHANGED <<coreVars, disconnected, client, builder, sideVars>>

NextHttp == PostGenerate \/ PostBatch

SpecHttp == InitHttp /\ [][NextHttp]_vars

----------------------------------------------------------------------------
(* The cache key on its own: the keys of two requests, as generateContent *)
(* binds them, and a lookup with the second key in a cache that holds an  *)
(* entry under the first.                                                  *)

KeyTopics == {TopicAa, TopicBB, TopicCSpaceC}

\* requests in and outside the lists of the routes; POST /batch passes any
\* language and tone on
KeyRequests ==
    {Request(p, c, l, t) :
        p \in KeyTopics,
        c \in {"blog", "social"},
        l \in {"english", "spanish", "english-casual"},
        t \in {"professional", "casual", "casual-professional"}}

InitKey ==
    /\ CoreAtRest
    /\ client = NoApplication
    /\ builder = NoApplication
    /\ http = NoApplication
    /\ fingerprint \in {[applied |-> "nothing", first |-> a, second |-> b,
                          firstKey |-> <<>>, secondKey |-> <<>>,
                          found |-> Undefined] : a, b \in KeyRequests}
    /\ batch = NoApplication
    /\ CrudAtRest

\* generateContent computes the key of the first request and, on a miss,
\* later writes a result under it
KeysFirst ==
    /\ fingerprint.applied = "nothing"
    /\ fingerprint' = [fingerprint EXCEPT
                          !.applied = "first",
                          !.firstKey = CacheKey(fingerprint.first)]
    /\ UNCHANGED <<coreVars, disconnected, pureVars, batch, crudVars>>

\* generateContent computes the key of the second request and looks it up
\* in a cache that holds a result under the key of the first
KeysSecond ==
    /\ fingerprint.applied = "first"
    /\ LET k == CacheKey(fingerprint.second)
       IN  fingerprint' = [fingerprint EXCEPT
                !.applied = "both",
                !.secondKey = k,
                !.found = CacheGet(CacheSet({}, fingerprint.firstKey,
                                            Gen1, now),
                                   k, now)]
    /\ UNCHANGED <<coreVars, disconnected, pureVars, batch, crudVars>>

NextKey == KeysFirst \/ KeysSecond

SpecKey == InitKey /\ [][NextKey]_vars

----------------------------------------------------------------------------
(* POST /batch within the system: one batch request, whose handler calls  *)
(* generateContent for its items, beside invocations made by POST         *)
(* /generate, the cache and the clock.  batch.inv is the generateContent  *)
(* invocation of the item at position pos; results is the results array,  *)
(* where hit and reqs record, beside what the handler pushes, whether the *)
(* invocation returned what the cache held and the providers it sent a    *)
(* request to; log records the start and the end of each invocation.      *)

\* items in the requests array of the batch
MaxRunItems == 3
\* invocations of POST /generate beside the batch
MaxRivals == 1

Rivals == 1..MaxRivals

\* the items of the batches of the model
RunItems ==
    { Request(TopicAa, "blog", Absent, Absent),
      Request(TopicCSpaceC, "social", "spanish", "casual") }

\* requests arrays: every one of up to MaxRunItems items (the empty one is
\* refused)
RunBodies == SeqsUpTo(RunItems, MaxRunItems)

\* what the invocations beside the batch ask for: the first item's content
RivalRequests == {Request(TopicAa, "blog", "english", "professional")}

NoBatch ==
    [applied |-> "nothing", items |-> <<>>, pos |-> 0, inv |-> IdleCall,
     results |-> <<>>, status |-> NoStatus, log |-> <<>>]

\* results.push({ success: true, content, request }), or the entry of the
\* catch block, for the ended invocation c of the item request
ResultOf(c, request) ==
    [success |-> c.pc # "threw",
     content |-> IF c.pc = "threw" THEN Undefined ELSE c.ret,
     request |-> request, hit |-> c.hit, reqs |-> c.reqs]

\* a loop that leaves out every other item
NextItem_Skips(i) == i + 2

\* for (const request of requests): the position after position i
NextItem(i) == i + 1

Event(what, i) == [what |-> what, item |-> i]

\* the loop of POST /batch from the item at position i on, until a
\* generateContent call waits for a provider or the items are exhausted
\* (then res.json answers): the batch and the cache afterwards
RECURSIVE RunBatch(_, _, _, _)
RunBatch(b, i, cch, time) ==
    IF i > Len(b.items)
    THEN [batch |-> [b EXCEPT !.applied = "answered", !.status = StatusOk,
                              !.pos = 0, !.inv = IdleCall],
          cache |-> cch]
    ELSE LET started == Started(IdleCall, BatchArguments(b.items[i]),
                                providers, cch, time)
             begun == [b EXCEPT !.pos = i, !.inv = started.call,
                                !.log = Append(@, Event("start", i))]
         IN  IF started.call.pc = "await"
             THEN [batch |-> begun, cache |-> started.cache]
             ELSE RunBatch(
                    [begun EXCEPT
                        !.results = Append(@, ResultOf(started.call,
                                                       b.items[i])),
                        !.log = Append(@, Event("end", i))],
                    NextItem(i), started.cache, time)

\* POST /batch with the requests array items: the answer 400, or the loop
\* up to its first wait
BatchArrives(items) ==
    /\ batch.applied = "nothing"
    /\ IF ~validateBatchRequest(items)
       THEN /\ batch' = [batch EXCEPT !.applied = "answered",
                                      !.items = items,
                                      !.status = StatusBadRequest]
            /\ cache' = cache
       ELSE \E run \in {RunBatch([batch EXCEPT !.applied = "running",
                                                !.items = items],
                                  1, cache, now)} :
                /\ batch' = run.batch
                /\ cache' = run.cache
    /\ UNCHANGED <<now, providers, call, disconnected, pureVars,
                   fingerprint, crudVars>>

\* the time a provider request of the batch takes: none to speak of, or
\* all the time the client allows
Latencies == {0, Timeout}

\* the outstanding callProvider call of the batch ends after d seconds,
\* and the loop runs on to its next wait or to the answer
BatchProviderSettles(completion, d) ==
    /\ batch.applied = "running"
    /\ batch.inv.pc = "await"
    /\ completion \in Completions(batch.inv)
    /\ now' = now + d
    /\ \E settled \in {Settled(batch.inv, completion, cache, now + d)} :
          IF settled.call.pc = "await"
          THEN /\ batch' = [batch EXCEPT !.inv = settled.call]
               /\ cache' = settled.cache
          ELSE \E run \in
                  {RunBatch(
                     [batch EXCEPT
                        !.inv = settled.call,
                        !.results =
                            Append(@, ResultOf(settled.call,
                                               batch.items[batch.pos])),
                        !.log = Append(@, Event("end", batch.pos))],
                     NextItem(batch.pos), settled.cache, now + d)} :
                  /\ batch' = run.batch
                  /\ cache' = run.cache
    /\ UNCHANGED <<providers, call, disconnected, pureVars, fingerprint,
                   crudVars>>

\* d seconds pass while the batch does not wait for a provider
BatchTick(d) ==
    /\ d > Timeout => batch.inv.pc # "await"
    /\ Tick(d)

\* the system after construction, with one provider enabled
InitBatch ==
    /\ InitCore
    /\ providers = ProviderList(<<FALSE, TRUE, FALSE>>)
    /\ client = NoApplication
    /\ builder = NoApplication
    /\ http = NoApplication
    /\ fingerprint = NoApplication
    /\ batch = NoBatch
    /\ CrudAtRest

NextBatch ==
    \/ \E items \in RunBodies : BatchArrives(items)
    \/ \E completion \in Completions(batch.inv), d \in Latencies :
            BatchProviderSettles(completion, d)
    \/ \E p \in Rivals, r \in RivalRequests : GenerateContent(p, r)
    \/ \E p \in Rivals : \E completion \in Completions(call[p]) :
            ProviderSettles(p, completion)
    \/ \E d \in TickSteps : BatchTick(d)
    \/ CheckData

SpecBatch == InitBatch /\ [][NextBatch]_vars

----------------------------------------------------------------------------
(* The content routes: POST /save, GET /:id, PUT /:id, DELETE /:id and    *)
(* GET /:id/export over contentStore.  A Map is modelled as a set of      *)
(* entries [k, v], one for each key.  clock is Date.now(), in             *)
(* milliseconds.  reply is the last answer.  ledger.savers records, for   *)
(* each id, the API key of the POST /save that stored the item of that    *)
(* id.                                                                     *)

\* milliseconds that pass in one behaviour
MaxClock == 1

\* res.status(201)
StatusCreated == 201
\* res.status(401)
StatusUnauthorized == 401
\* res.status(403)
StatusForbidden == 403
\* res.status(404)
StatusNotFound == 404

MapHas(m, k) == \E e \in m : e.k = k
MapGet(m, k) == (CHOOSE e \in m : e.k = k).v
MapSet(m, k, v) == {e \in m : e.k # k} \cup {[k |-> k, v |-> v]}
MapDelete(m, k) == {e \in m : e.k # k}

\* the number of characters of the strings of the model
Chars(str) ==
    CASE str = "" -> 0
      [] str = "too short" -> 9
      [] str = "pw" -> 2
      [] OTHER -> 12

\* titles are at most 200 characters, contents at least 10
MinTitleLength == 1
MaxTitleLength == 200
MinContentLength == 10

\* the x-api-key headers of the requests; Absent when there is none
HeaderKeys == {Absent, "key-A", "key-B"}

\* Date.now().toString(): the id of a saved item and of a registered user
DateNowString(time) == ToString(time)

\* the ids of the requests: every id POST /save can have given
RequestIds == {DateNowString(t) : t \in 0..MaxClock}

\* a stored item (of its fields the model keeps those below)
SavedContent(id, title, content, apiKey, createdAt) ==
    [id |-> id, title |-> title, content |-> content, apiKey |-> apiKey,
     createdAt |-> createdAt, updatedAt |-> createdAt]

\* the validation chain of POST /save
validateSave(b) ==
    /\ Chars(b.title) >= MinTitleLength /\ Chars(b.title) <= MaxTitleLength
    /\ Chars(b.content) >= MinContentLength
    /\ b.contentType \in ContentTypes

\* the validation chain of PUT /:id
validateUpdate(updates) ==
    /\ updates.title # Absent
          => /\ Chars(updates.title) >= MinTitleLength
             /\ Chars(updates.title) <= MaxTitleLength
    /\ updates.content # Absent
          => Chars(updates.content) >= MinContentLength

\* the bodies of POST /save
SaveBodies ==
    { [title |-> "First title", content |-> "some content",
       contentType |-> "blog"],
      [title |-> "", content |-> "some content", contentType |-> "blog"],
      [title |-> "First title", content |-> "too short",
       contentType |-> "blog"],
      [title |-> "First title", content |-> "some content",
       contentType |-> "video"] }

\* a body of PUT /:id: the fields it holds, Absent for the others
Updates(id, title, content, apiKey) ==
    [id |-> id, title |-> title, content |-> content, apiKey |-> apiKey]

UpdateBodies ==
    { Updates(Absent, "Second title", Absent, Absent),
      Updates(Absent, Absent, "other content", Absent),
      Updates(Absent, "", Absent, Absent),
      Updates(Absent, Absent, Absent, "key-B"),
      Updates("moved", Absent, Absent, Absent) }

\* { ...content, ...updates, updatedAt: new Date().toISOString() }
Spread(content, updates, time) ==
    [content EXCEPT
        !.id = IF updates.id # Absent THEN updates.id ELSE @,
        !.title = IF updates.title # Absent THEN updates.title ELSE @,
        !.content = IF updates.content # Absent THEN updates.content ELSE @,
        !.apiKey = IF updates.apiKey # Absent THEN updates.apiKey ELSE @,
        !.updatedAt = time]

Reply(route, key, id, status) ==
    [route |-> route, key |-> key, id |-> id, status |-> status]

\* the checks GET, PUT, DELETE and export of /:id make before they act:
\* the status they answer with, StatusOk when they go on
Access(key, id) ==
    IF key = Absent THEN StatusUnauthorized
    ELSE IF ~MapHas(contentStore, id) THEN StatusNotFound
    ELSE IF MapGet(contentStore, id).apiKey # key THEN StatusForbidden
    ELSE StatusOk

\* POST /save
PostSave(key, b) ==
    /\ LET id == DateNowString(clock)
       IN  IF ~validateSave(b)
           THEN /\ reply' = Reply("POST /save", key, Absent,
                                  StatusBadRequest)
                /\ UNCHANGED <<contentStore, ledger>>
           ELSE IF key = Absent
           THEN /\ reply' = Reply("POST /save", key, Absent,
                                  StatusUnauthorized)
                /\ UNCHANGED <<contentStore, ledger>>
           ELSE /\ contentStore' =
                      MapSet(contentStore, id,
                             SavedContent(id, b.title, b.content, key, clock))
                /\ ledger' = [ledger EXCEPT !.savers = MapSet(@, id, key)]
                /\ reply' = Reply("POST /save", key, id, StatusCreated)
    /\ UNCHANGED <<coreVars, disconnected, pureVars, fingerprint, batch,
                   authVars, clock>>

\* GET /:id
GetById(key, id) ==
    /\ reply' = Reply("GET /:id", key, id, Access(key, id))
    /\ UNCHANGED <<coreVars, disconnected, pureVars, fingerprint, batch,
                   contentStore, authVars, clock, ledger>>

\* PUT /:id
PutById(key, id, updates) ==
    /\ IF ~validateUpdate(updates)
       THEN /\ reply' = Reply("PUT /:id", key, id, StatusBadRequest)
            /\ contentStore' = contentStore
       ELSE /\ reply' = Reply("PUT /:id", key, id, Access(key, id))
            /\ contentStore' =
                  IF Access(key, id) = StatusOk
                  THEN MapSet(contentStore, id,
                              Spread(MapGet(contentStore, id), updates,
                                     clock))
                  ELSE contentStore
    /\ UNCHANGED <<coreVars, disconnected, pureVars, fingerprint, batch,
                   authVars, clock, ledger>>

\* DELETE /:id
DeleteById(key, id) ==
    /\ reply' = Reply("DELETE /:id", key, id, Access(key, id))
    /\ contentStore' =
          IF Access(key, id) = StatusOk THEN MapDelete(contentStore, id)
          ELSE contentStore
    /\ UNCHANGED <<coreVars, disconnected, pureVars, fingerprint, batch,
                   authVars, clock, ledger>>

\* formats asked of GET /:id/export, and one it does not know
RequestFormats == {"txt", "json", "pdf"}

\* GET /:id/export?format=...
ExportById(key, id, format) ==
    /\ reply' =
          Reply("GET /:id/export", key, id,
                IF Access(key, id) # StatusOk THEN Access(key, id)
                ELSE IF format \notin {"txt", "md", "markdown", "json"}
                THEN StatusBadRequest
                ELSE StatusOk)
    /\ UNCHANGED <<coreVars, disconnected, pureVars, fingerprint, batch,
                   contentStore, authVars, clock, ledger>>

\* a millisecond passes
Elapses ==
    /\ clock < MaxClock
    /\ clock' = clock + 1
    /\ UNCHANGED <<coreVars, disconnected, pureVars, fingerprint, batch,
                   contentStore, authVars, reply, ledger>>

\* the emails of the registrations, the addresses of the clients and the
\* keys POST /guest can make
Emails == {"a@x.io", "b@x.io"}
Ips == {"ip-1", "ip-2"}
GuestKeys == {"guest_" \o ToString(t) : t \in 0..MaxClock}

\* the routes at the start of the process
InitRoutes ==
    /\ CoreAtRest
    /\ client = NoApplication
    /\ builder = NoApplication
    /\ http = NoApplication
    /\ fingerprint = NoApplication
    /\ batch = NoApplication
    /\ contentStore = {}
    /\ users = <<>>
    /\ apiKeys = {}
    /\ objects = <<>>
    /\ pending = [e \in Emails |-> 0]
    /\ limiter = [ip \in Ips |-> 0]
    /\ clock = 0
    /\ reply = NoApplication
    /\ ledger = [savers |-> {}, tokens |-> {}, issued |-> 0,
                 made |-> [k \in GuestKeys |-> 0]]

NextContent ==
    \/ \E key \in HeaderKeys, b \in SaveBodies : PostSave(key, b)
    \/ \E key \in HeaderKeys, id \in RequestIds : GetById(key, id)
    \/ \E key \in HeaderKeys, id \in RequestIds, updates \in UpdateBodies :
            PutById(key, id, updates)
    \/ \E key \in HeaderKeys, id \in RequestIds : DeleteById(key, id)
    \/ \E key \in HeaderKeys, id \in RequestIds, format \in RequestFormats :
            ExportById(key, id, format)
    \/ Elapses

SpecContent == InitRoutes /\ [][NextContent]_vars

----------------------------------------------------------------------------
(* The auth routes: POST /register, /regenerate-key, /validate-key,       *)
(* /guest and GET /usage over the Maps users (email to user) and apiKeys  *)
(* (key to user).  Both Maps hold references to the same user objects:    *)
(* objects is the sequence of the user objects made so far, and a Map     *)
(* value is an index into it.  users is a sequence of entries, in the     *)
(* insertion order in which users.values() lists them.  POST /register    *)
(* awaits bcrypt.hash between its check of users and its writes: pending  *)
(* counts, for each email, the registrations that wait there.  ledger     *)
(* records the tokens signed so far, each with the user it was signed     *)
(* for, and the number of keys generateApiKey has made.                   *)

\* keys generateApiKey makes in one behaviour
MaxKeys == 3
\* POST /guest requests in one behaviour
MaxGuests == 1

\* res.status(409)
StatusConflict == 409
\* usage.limit of a registered user, and of a guest
FreeLimit == 100
GuestLimit == 10
\* password: isLength({ min: 6 })
MinPasswordLength == 6

RegisterBodies ==
    { [email |-> "a@x.io", password |-> "long password"],
      [email |-> "b@x.io", password |-> "long password"],
      [email |-> "nobody", password |-> "long password"],
      [email |-> "a@x.io", password |-> "pw"] }

\* the validation chain of POST /register (isEmail holds of the Emails)
validateRegister(b) ==
    /\ b.email \in Emails
    /\ Chars(b.password) >= MinPasswordLength

\* users.has(email)
UsersHas(us, email) == \E i \in DOMAIN us : us[i].k = email

\* users.set(email, user): a key the Map holds keeps its place
UsersSet(us, email, ref) ==
    IF UsersHas(us, email)
    THEN [i \in DOMAIN us |->
             IF us[i].k = email THEN [k |-> email, v |-> ref] ELSE us[i]]
    ELSE Append(us, [k |-> email, v |-> ref])

\* generateApiKey(): 'acc_' and 22 random characters; the model takes the
\* n-th key to be made for it, which no earlier call has returned
generateApiKey(n) == "acc_" \o ToString(n)

User(id, email, apiKey, plan, limit) ==
    [id |-> id, email |-> email, apiKey |-> apiKey, plan |-> plan,
     usage |-> [requests |-> 0, limit |-> limit]]

\* a bearer token: absent, or not signed with the secret, or the payload
\* { userId, email } jwt.sign has signed
Token(present, signed, userId, email) ==
    [present |-> present, signed |-> signed, userId |-> userId,
     email |-> email]
NoToken == Token(FALSE, FALSE, Absent, Absent)
ForgedToken == Token(TRUE, FALSE, "0", "a@x.io")

\* the tokens a client can hold: none, a forged one, and those signed
Tokens == {NoToken, ForgedToken} \cup {t.token : t \in ledger.tokens}

\* every token of the model
AllTokens ==
    {NoToken, ForgedToken}
    \cup {Token(TRUE, TRUE, DateNowString(t), email) :
             t \in 0..MaxClock, email \in Emails}

\* keys made and keys that waiting registrations will make
KeysTaken ==
    ledger.issued
    + Cardinality({e \in Emails : pending[e] >= 1})
    + Cardinality({e \in Emails : pending[e] >= 2})

\* POST /register, up to await bcrypt.hash
RegisterArrives(b) ==
    /\ KeysTaken < MaxKeys
    /\ b.email \in Emails => pending[b.email] < 2
    /\ IF ~validateRegister(b)
       THEN /\ reply' = Reply("POST /register", Absent, Absent,
                              StatusBadRequest)
            /\ pending' = pending
       ELSE IF UsersHas(users, b.email)
       THEN /\ reply' = Reply("POST /register", Absent, Absent,
                              StatusConflict)
            /\ pending' = pending
       ELSE /\ pending' = [pending EXCEPT ![b.email] = @ + 1]
            /\ reply' = reply
    /\ UNCHANGED <<coreVars, disconnected, pureVars, fingerprint, batch,
                   contentStore, users, apiKeys, objects, limiter, clock,
                   ledger>>

\* POST /register, from the end of bcrypt.hash
RegisterCompletes(email) ==
    /\ pending[email] > 0
    /\ LET apiKey == generateApiKey(ledger.issued + 1)
           user == User(DateNowString(clock), email, apiKey, "free",
                        FreeLimit)
           ref == Len(objects) + 1
       IN  /\ objects' = Append(objects, user)
           /\ users' = UsersSet(users, email, ref)
           /\ apiKeys' = MapSet(apiKeys, apiKey, ref)
           /\ ledger' =
                 [ledger EXCEPT
                    !.issued = @ + 1,
                    !.tokens = @ \cup
                       {[token |-> Token(TRUE, TRUE, user.id, email),
                         ref |-> ref]}]
           /\ reply' = Reply("POST /register", apiKey, user.id,
                             StatusCreated)
    /\ pending' = [pending EXCEPT ![email] = @ - 1]
    /\ UNCHANGED <<coreVars, disconnected, pureVars, fingerprint, batch,
                   contentStore, limiter, clock>>

\* Array.from(users.values()).find(u => u.id === decoded.userId): the
\* first user of that id, 0 when there is none
FindById(us, objs, userId) ==
    LET found == {i \in DOMAIN us : objs[us[i].v].id = userId}
    IN  IF found = {} THEN 0
        ELSE us[CHOOSE i \in found : \A j \in found : i <= j].v

\* POST /regenerate-key
RegenerateKey(token) ==
    /\ token \in Tokens
    /\ KeysTaken < MaxKeys
    /\ LET ref == FindById(users, objects, token.userId)
           newApiKey == generateApiKey(ledger.issued + 1)
       IN  IF ~token.present \/ ~token.signed
           THEN /\ reply' = Reply("POST /regenerate-key", Absent, Absent,
                                  StatusUnauthorized)
                /\ UNCHANGED <<users, apiKeys, objects, ledger>>
           ELSE IF ref = 0
           THEN /\ reply' = Reply("POST /regenerate-key", Absent, Absent,
                                  StatusNotFound)
                /\ UNCHANGED <<users, apiKeys, objects, ledger>>
           ELSE /\ objects' = [objects EXCEPT ![ref].apiKey = newApiKey]
                /\ users' = UsersSet(users, objects[ref].email, ref)
                /\ apiKeys' = MapSet(MapDelete(apiKeys, objects[ref].apiKey),
                                     newApiKey, ref)
                /\ ledger' = [ledger EXCEPT !.issued = @ + 1]
                /\ reply' = Reply("POST /regenerate-key", newApiKey,
                                  objects[ref].id, StatusOk)
    /\ UNCHANGED <<coreVars, disconnected, pureVars, fingerprint, batch,
                   contentStore, pending, limiter, clock>>

\* the answer of POST /validate-key for the body { apiKey }
ValidateKeyStatus(keys, apiKey) ==
    IF apiKey = "" THEN StatusBadRequest
    ELSE IF ~MapHas(keys, apiKey) THEN StatusUnauthorized
    ELSE StatusOk

\* the answer of GET /usage for the header x-api-key
UsageStatus(keys, apiKey) ==
    IF apiKey = Absent \/ apiKey = "" THEN StatusUnauthorized
    ELSE IF ~MapHas(keys, apiKey) THEN StatusUnauthorized
    ELSE StatusOk

\* the keys of the requests: every key made, a guest key, and none
RequestKeys ==
    {generateApiKey(n) : n \in 1..MaxKeys} \cup {"guest_0", "", Absent}

\* POST /validate-key
ValidateKey(apiKey) ==
    /\ reply' = Reply("POST /validate-key", apiKey,
                      IF MapHas(apiKeys, apiKey)
                      THEN objects[MapGet(apiKeys, apiKey)].id
                      ELSE Absent,
                      ValidateKeyStatus(apiKeys, apiKey))
    /\ UNCHANGED <<coreVars, disconnected, pureVars, fingerprint, batch,
                   contentStore, authVars, clock, ledger>>

\* GET /usage
Usage(apiKey) ==
    /\ reply' = Reply("GET /usage", apiKey, Absent,
                      UsageStatus(apiKeys, apiKey))
    /\ UNCHANGED <<coreVars, disconnected, pureVars, fingerprint, batch,
                   contentStore, authVars, clock, ledger>>

\* POST /guest
Guest ==
    /\ Cardinality({i \in DOMAIN objects : objects[i].plan = "demo"})
          < MaxGuests
    /\ LET guestApiKey == "guest_" \o ToString(clock)
           guestUser == User(guestApiKey, "guest@demo.com", guestApiKey,
                             "demo", GuestLimit)
       IN  /\ objects' = Append(objects, guestUser)
           /\ apiKeys' = MapSet(apiKeys, guestApiKey, Len(objects) + 1)
           /\ reply' = Reply("POST /guest", guestApiKey, guestUser.id,
                             StatusOk)
    /\ UNCHANGED <<coreVars, disconnected, pureVars, fingerprint, batch,
                   contentStore, users, pending, limiter, clock, ledger>>

NextAuth ==
    \/ \E b \in RegisterBodies : RegisterArrives(b)
    \/ \E email \in Emails : RegisterCompletes(email)
    \/ \E token \in AllTokens : RegenerateKey(token)
    \/ \E apiKey \in RequestKeys : ValidateKey(apiKey)
    \/ \E apiKey \in RequestKeys : Usage(apiKey)
    \/ Guest
    \/ Elapses

SpecAuth == InitRoutes /\ [][NextAuth]_vars

----------------------------------------------------------------------------
(* A guest key in use: POST /guest, and POST /generate behind aiLimiter   *)
(* (app.use('/api/ai', aiLimiter, aiRoutes)).  limiter holds the hits     *)
(* aiLimiter has counted for each client address in the current window    *)
(* of one minute.  The limiter of all routes (100 requests in 15 minutes  *)
(* for an address) is not reached by the requests of the model.  ledger   *)
(* counts the requests made with each key.                                *)

\* requests made with one key in one behaviour
MaxRequests == 11

\* aiLimiter: max
AiMax == 10
\* the status express-rate-limit answers with
StatusTooMany == 429

GuestBodies ==
    { Request(TopicAa, "blog", Absent, Absent),
      Request(TopicAa, "video", Absent, Absent) }

\* POST /generate with the header x-api-key: apiKey, from the address ip;
\* served is the status of the answer when generateContent was called
AiGenerate(ip, apiKey, b, served) ==
    /\ MapHas(apiKeys, apiKey)
    /\ ledger.made[apiKey] < MaxRequests
    /\ limiter' = [limiter EXCEPT ![ip] = @ + 1]
    /\ reply' =
          Reply("POST /generate", apiKey, Absent,
                IF limiter[ip] + 1 > AiMax THEN StatusTooMany
                ELSE IF ~validateGenerateRequest(b) THEN StatusBadRequest
                ELSE served)
    /\ ledger' = [ledger EXCEPT !.made[apiKey] = @ + 1]
    /\ UNCHANGED <<coreVars, disconnected, pureVars, fingerprint, batch,
                   contentStore, users, apiKeys, objects, pending, clock>>

\* the window of aiLimiter ends
WindowPasses ==
    /\ limiter' = [ip \in Ips |-> 0]
    /\ UNCHANGED <<coreVars, disconnected, pureVars, fingerprint, batch,
                   contentStore, users, apiKeys, objects, pending, clock,
                   reply, ledger>>

NextGuest ==
    \/ Guest
    \/ \E ip \in Ips, apiKey \in GuestKeys, b \in GuestBodies,
          served \in {StatusOk, StatusError} :
            AiGenerate(ip, apiKey, b, served)
    \/ WindowPasses

SpecGuest == InitRoutes /\ [][NextGuest]_vars

----------------------------------------------------------------------------
(* Properties *)

KeyOf(p) == CacheKey(call[p].req)

Last(seq) == seq[Len(seq)]

\* invocation p takes its first step / returns in this step
Starts(p) == call[p].pc = "idle" /\ call'[p].pc # "idle"
Finishes(p) == call[p].pc = "await" /\ call'[p].pc = "done"

\* position of a provider in this.providers
Position(name) == CHOOSE j \in 1..Len(providers) : providers[j].name = name

\* C1: generateContent never raises an error to its caller and what it
\* returns is a string, whatever the providers answer.
C1_ReturnsAString ==
    \A p \in Calls :
        /\ call[p].pc # "threw"
        /\ call[p].pc = "done" => call[p].ret.t = "string"

\* C2: while fewer than StdTTL seconds have passed since the entry of a
\* cache key was written, the entry stays in the cache (or a newer one
\* takes its place), and a generateContent call with that key returns the
\* entry's value at once and sends no provider request.
C2_FreshEntryIsServed ==
    [][ /\ \A e \in cache :
            now' - e.w < StdTTL
                => \E f \in cache' : f.k = e.k /\ f.w >= e.w
        /\ \A p \in Calls : \A e \in cache :
            (Starts(p) /\ e.k = CacheKey(call'[p].req) /\ now - e.w < StdTTL)
                => /\ call'[p].pc = "done"
                   /\ call'[p].ret = e.v
                   /\ call'[p].reqs = <<>>
                   /\ call'[p].res = <<>>
      ]_vars

\* a provider's text was cached by one call and a later call with the same
\* request returned it without a provider request
C2_Witness ==
    \E p, q \in Calls :
        /\ p # q
        /\ call[q].pc = "done" /\ ~call[q].hit
        /\ call[q].res # <<>> /\ call[q].ret = Last(call[q].res)
        /\ call[p].pc = "done" /\ call[p].hit
        /\ call[p].req = call[q].req
        /\ call[p].ret = call[q].ret
        /\ call[p].reqs = <<>>

\* C3: the requests of one invocation go to the enabled providers in list
\* order, each after the one before it yielded nothing; no request goes to
\* a provider that is not enabled, and no invocation raises an error.
C3_ProvidersInOrder ==
    \A p \in Calls :
        /\ call[p].pc # "threw"
        /\ \A i \in 1..Len(call[p].reqs) :
            LET j == Position(call[p].reqs[i])
            IN  /\ providers[j].enabled
                /\ Cardinality({m \in 1..(j - 1) : providers[m].enabled})
                      = i - 1
                /\ i > 1 => /\ Len(call[p].res) >= i - 1
                            /\ call[p].res[i - 1] = Undefined

\* with the third provider disabled, a call went from the failed first
\* provider to the second and returned the second's text
C3_Witness ==
    \E p \in Calls :
        /\ ~providers[3].enabled
        /\ call[p].pc = "done"
        /\ call[p].reqs = <<"huggingface", "ollama-proxy">>
        /\ call[p].res[1] = Undefined
        /\ call[p].ret = call[p].res[2]
        /\ Truthy(call[p].ret)

\* the enabled providers, by position in this.providers
EnabledPositions == {j \in 1..Len(providers) : providers[j].enabled}

FirstEnabledName ==
    providers[CHOOSE j \in EnabledPositions :
                 \A m \in EnabledPositions : j <= m].name

\* C4: when a provider call yields text, generateContent stores the text
\* in the cache under the request's key, returns it in the same step and
\* sends no further provider request.
C4_SuccessIsCachedAndReturned ==
    [][ \A p \in Calls :
          ( /\ call[p].pc = "await"
            /\ Len(call'[p].res) = Len(call[p].res) + 1
            /\ Truthy(Last(call'[p].res)) )
              => /\ call'[p].pc = "done"
                 /\ call'[p].ret = Last(call'[p].res)
                 /\ call'[p].reqs = call[p].reqs
                 /\ \E e \in cache' : /\ e.k = KeyOf(p)
                                      /\ e.v = call'[p].ret
                                      /\ e.w = now
      ]_vars

\* the first provider's text was returned and cached while a second
\* provider was enabled and got no request
C4_Witness ==
    \E p \in Calls :
        /\ providers[2].enabled
        /\ call[p].pc = "done"
        /\ call[p].reqs = <<"huggingface">>
        /\ Truthy(call[p].ret)
        /\ call[p].ret = call[p].res[1]
        /\ \E e \in cache : e.k = KeyOf(p) /\ e.v = call[p].ret

\* C5: an invocation that misses the cache and gets text from none of the
\* enabled providers (all failed, or none is enabled) returns the output of
\* the fallback generator for its request, which is a non-empty string,
\* and stores exactly that output in the cache under the request's key.
C5_FallbackIsCachedAndReturned ==
    [][ \A p \in Calls :
          ( /\ call[p].pc # "done"
            /\ call'[p].pc = "done"
            /\ ~call'[p].hit
            /\ Len(call'[p].res) = Cardinality(EnabledPositions)
            /\ \A i \in 1..Len(call'[p].res) : call'[p].res[i] = Undefined )
              => /\ call'[p].ret = Fallback(call'[p].req)
                 /\ call'[p].ret.t = "string"
                 /\ call'[p].ret.s # <<>>
                 /\ \E e \in cache' : /\ e.k = CacheKey(call'[p].req)
                                      /\ e.v = call'[p].ret
                                      /\ e.w = now
      ]_vars

\* both enabled providers failed and the fallback content was returned
\* and cached
C5_Witness ==
    \E p \in Calls :
        /\ call[p].pc = "done"
        /\ Len(call[p].reqs) = 2
        /\ call[p].res = <<Undefined, Undefined>>
        /\ call[p].ret = Fallback(call[p].req)
        /\ \E e \in cache : e.k = KeyOf(p) /\ e.v = call[p].ret

\* C6 as stated: once StdTTL seconds have passed since the entry of a cache
\* key was written (StdTTL seconds or more), a generateContent call with
\* that key does not return the entry and runs the provider chain.
C6_AbsentOnceTTLPassed ==
    [][ \A p \in Calls : \A e \in cache :
          (Starts(p) /\ e.k = CacheKey(call'[p].req) /\ now - e.w >= StdTTL)
              => /\ ~call'[p].hit
                 /\ e \notin cache'
                 /\ IF EnabledPositions # {}
                    THEN /\ call'[p].pc = "await"
                         /\ call'[p].reqs = <<FirstEnabledName>>
                    ELSE /\ call'[p].pc = "done"
                         /\ call'[p].ret = Fallback(call'[p].req)
      ]_vars

\* C6, amended: when more than StdTTL seconds have passed since the entry
\* of a cache key was written, a generateContent call with that key does
\* not return the entry: the lookup drops it and the call runs the provider
\* chain (the fallback when no provider is enabled).
C6_ExpiredEntryIsAbsent ==
    [][ \A p \in Calls : \A e \in cache :
          (Starts(p) /\ e.k = CacheKey(call'[p].req) /\ now - e.w > StdTTL)
              => /\ ~call'[p].hit
                 /\ e \notin cache'
                 /\ IF EnabledPositions # {}
                    THEN /\ call'[p].pc = "await"
                         /\ call'[p].reqs = <<FirstEnabledName>>
                    ELSE /\ call'[p].pc = "done"
                         /\ call'[p].ret = Fallback(call'[p].req)
      ]_vars

\* a call has sent a provider request although an earlier call with the
\* same request had cached its result: that entry is gone
C6_Witness ==
    \E p, q \in Calls :
        /\ p # q
        /\ call[q].pc = "done" /\ ~call[q].hit
        /\ call[p].req = call[q].req
        /\ call[p].pc = "await"
        /\ Entries(cache, KeyOf(p)) = {}

\* C7: every cache entry expires StdTTL seconds after the write that made
\* it, also after it has been returned by cache hits.
C7_ExpiryFixedAtWrite ==
    \A e \in cache : e.t = e.w + StdTTL

\* an entry was returned by a cache hit some time after its write and
\* still has the expiry time set by the write
C7_Witness ==
    \E p \in Calls : \E e \in cache :
        /\ call[p].pc = "done" /\ call[p].hit
        /\ e.k = KeyOf(p) /\ e.v = call[p].ret
        /\ e.w < now
        /\ e.t = e.w + StdTTL

\* C8: the cache holds at most one entry per key, and after an invocation
\* has written its result the only entry of its key holds that result.
C8_OneEntryPerKey ==
    [][ /\ \A e, f \in cache' : e.k = f.k => e = f
        /\ \A p \in Calls :
             (call[p].pc # "done" /\ call'[p].pc = "done" /\ ~call'[p].hit)
                => \A e \in cache' :
                      e.k = CacheKey(call'[p].req) => e.v = call'[p].ret
      ]_vars

\* two invocations wrote different results under one key and the cache
\* holds a single entry for it
C8_Witness ==
    \E p, q \in Calls :
        /\ call[p].pc = "done" /\ ~call[p].hit
        /\ call[q].pc = "done" /\ ~call[q].hit
        /\ KeyOf(p) = KeyOf(q)
        /\ call[p].ret # call[q].ret
        /\ Cardinality(Entries(cache, KeyOf(p))) = 1

\* C9: an invocation that starts while another one with the same cache key
\* is awaiting a provider, and finds no live entry, sends its own provider
\* request and leaves the other invocation as it is; and when an
\* invocation returns a result it did not take from the cache, the cache
\* holds that result from then on, whatever another invocation had written
\* under the key before.
C9_NoCoalescing ==
    [][ \A p, q \in Calls :
          /\ ( /\ Starts(p)
               /\ call[q].pc = "await"
               /\ CacheKey(call'[p].req) = KeyOf(q)
               /\ \A e \in cache : e.k = KeyOf(q) => e.t < now )
                => /\ call'[p].pc = "await"
                   /\ call'[p].reqs = <<FirstEnabledName>>
                   /\ call'[q] = call[q]
          /\ ( /\ Finishes(p)
               /\ \E e \in cache : e.k = KeyOf(p) /\ e.t >= now )
                => /\ CacheGet(cache', KeyOf(p), now) = call'[p].ret
                   /\ \A e \in cache' : e.k = KeyOf(p) => e.w = now
      ]_vars

\* two invocations with the same key missed the cache at time 0, both got
\* text from a provider, and their results differ
C9_Witness ==
    \E p, q \in Calls :
        /\ now = 0
        /\ KeyOf(p) = KeyOf(q)
        /\ call[p].pc = "done" /\ ~call[p].hit /\ call[p].reqs # <<>>
        /\ call[q].pc = "done" /\ ~call[q].hit /\ call[q].reqs # <<>>
        /\ call[p].ret # call[q].ret
        /\ \E e \in cache : e.k = KeyOf(p) /\ e.v \in {call[p].ret, call[q].ret}

\* C10: within one invocation no provider gets a second request, the
\* requests are no more than the enabled providers, and every callProvider
\* call stands for one request: the requests sent are the calls that have
\* ended plus the one outstanding.
C10_NoRetry ==
    \A p \in Calls :
        /\ \A i, j \in 1..Len(call[p].reqs) :
              call[p].reqs[i] = call[p].reqs[j] => i = j
        /\ Len(call[p].reqs) <= Cardinality(EnabledPositions)
        /\ Len(call[p].reqs)
              = Len(call[p].res) + (IF call[p].pc = "await" THEN 1 ELSE 0)

\* an invocation whose two providers both failed has sent two requests,
\* one to each
C10_Witness ==
    \E p \in Calls :
        /\ call[p].pc = "done"
        /\ call[p].reqs = <<"huggingface", "ollama-proxy">>
        /\ call[p].res = <<Undefined, Undefined>>
        /\ call[p].ret.t = "string"

----------------------------------------------------------------------------
(* Properties of the provider client *)

\* the fields that carry the text in the response shape of a provider
TextFields(providerName) ==
    IF providerName = "huggingface" THEN {"generated_text"}
    ELSE {"response", "text"}

IsText(v) == v.t = "string" /\ v.s # <<>>

\* an object of the provider's shape: each text field is a string or is
\* missing, and one of them holds text
ShapedObject(obj, providerName) ==
    /\ \A f \in TextFields(providerName) :
            obj[f].t \in {"string", "undefined"}
    /\ \E f \in TextFields(providerName) : IsText(obj[f])

\* a well-shaped response body: an object of the provider's shape or, for
\* huggingface, an array whose first element is one
WellShaped(data, providerName) ==
    \/ data.kind = "object" /\ ShapedObject(data.obj, providerName)
    \/ /\ providerName = "huggingface"
       /\ data.kind = "array"
       /\ Len(data.items) > 0
       /\ ShapedObject(data.items[1], providerName)

\* C11: callProvider throws an error whenever the response body is empty
\* or malformed (null, a string, an empty array, an object or array
\* element without the provider's text field); it returns no value then.
C11_MalformedBodyFails ==
    ( /\ client.applied = "callProvider"
      /\ client.provider \in {"huggingface", "ollama-proxy", "local-llm"}
      /\ ~client.outcome.rejected
      /\ ~WellShaped(client.outcome.data, client.provider) )
        => client.out.thrown

\* C12: for a well-shaped response body callProvider and parseResponse
\* return the text field of the provider's shape: for huggingface the
\* generated_text of the first element of an array and the generated_text
\* of an object; for ollama-proxy and local-llm the response field, or the
\* text field when response is missing or empty.
C12_ExtractsTextField ==
    ( /\ client.applied \in {"callProvider", "parseResponse"}
      /\ client.provider \in {"huggingface", "ollama-proxy", "local-llm"}
      /\ ~client.outcome.rejected
      /\ WellShaped(client.outcome.data, client.provider) )
        => LET data == client.outcome.data
               obj == IF data.kind = "array" THEN data.items[1] ELSE data.obj
           IN  /\ ~client.out.thrown
               /\ client.out.v =
                     IF client.provider = "huggingface"
                     THEN obj.generated_text
                     ELSE IF obj.response \in {Undefined, EmptyString}
                     THEN obj.text
                     ELSE obj.response
               /\ IsText(client.out.v)

\* callProvider returned the text field of an ollama-proxy body whose
\* response field is empty
C12_Witness ==
    /\ client.applied = "callProvider"
    /\ client.provider = "ollama-proxy"
    /\ ~client.outcome.rejected
    /\ client.outcome.data.kind = "object"
    /\ client.outcome.data.obj.response = EmptyString
    /\ client.outcome.data.obj.text = Gen2
    /\ client.out = Return(Gen2)

----------------------------------------------------------------------------
(* Properties of the fallback generator within the system *)

\* invocation p has ended with the output of the fallback generator: it got
\* text neither from the cache nor from a provider
FellBack(p) ==
    /\ call[p].pc = "done"
    /\ ~call[p].hit
    /\ Len(call[p].res) = Len(call[p].chain)
    /\ \A i \in 1..Len(call[p].res) : call[p].res[i] = Undefined

\* invocation p ends in this step with the output of the fallback generator
FallsBack(p) ==
    /\ call[p].pc # "done"
    /\ call'[p].pc = "done"
    /\ ~call'[p].hit
    /\ Len(call'[p].res) = Len(call'[p].chain)
    /\ \A i \in 1..Len(call'[p].res) : call'[p].res[i] = Undefined

\* C13: the fallback generator is deterministic and independent of the
\* cache, the providers and the time: when an invocation ends with the
\* fallback output, the output equals the one any earlier invocation with
\* the same (topic, contentType, language, tone) ended with, whatever
\* happened in between, and the step sends no provider request.
C13_FallbackIsDeterministic ==
    [][ \A p \in Calls :
          FallsBack(p)
            => /\ call'[p].reqs =
                     (IF call[p].pc = "idle" THEN <<>> ELSE call[p].reqs)
               /\ Len(call'[p].reqs) = Len(call'[p].res)
               /\ \A q \in Calls :
                     (q # p /\ FellBack(q) /\ call[q].req = call'[p].req)
                        => call'[p].ret = call[q].ret
      ]_vars

\* two invocations with the same request ended with the same fallback
\* output, the second one at a later time, after the entry of the first
\* had expired and while the cache holds the entry of the second
C13_Witness ==
    \E p, q \in Calls :
        /\ p # q
        /\ FellBack(p) /\ FellBack(q)
        /\ call[p].req = call[q].req
        /\ call[p].ret = call[q].ret
        /\ call[p].ret.t = "string"
        /\ Len(call[p].reqs) > 0
        /\ now > 0
        /\ \E e \in cache :
              e.k = KeyOf(p) /\ e.w = now /\ e.v = call[p].ret

----------------------------------------------------------------------------
(* Properties of the routes *)

\* C14: every generateContent call of POST /generate and of POST /batch is
\* made only after the prompt length and the contentType, language and
\* tone checks have passed on the request (on the item, for POST /batch),
\* so the language and the tone the core receives are in their lists.
C14_CoreCalledAfterValidation ==
    \A i \in 1..Len(http.calls) :
        /\ IsLength(http.items[i].prompt, MinPromptLength, MaxPromptLength)
        /\ http.items[i].contentType \in ContentTypes
        /\ OptionalIsIn(http.items[i].language, Languages)
        /\ OptionalIsIn(http.items[i].tone, Tones)
        /\ http.calls[i].contentType \in ContentTypes
        /\ http.calls[i].language \in Languages
        /\ http.calls[i].tone \in Tones

\* the request of invocation p is what POST /generate passes to the core
\* for a body that passed validateGenerateRequest
PassedValidation(p) ==
    /\ call[p].pc # "idle"
    /\ validateGenerateRequest(call[p].req)
    /\ GenerateArguments(call[p].req) = call[p].req

\* C15: a request to POST /generate that passed validation is never
\* answered with the status 500, whatever the providers return.
C15_NoErrorAfterValidation ==
    \A p \in Calls :
        PassedValidation(p) => call[p].status # StatusError

----------------------------------------------------------------------------
(* Progress *)

\* C16: given that every provider call ends, every invocation that waits
\* for a provider eventually returns; an invocation that returns without
\* a cache hit has written its result under its key in the same step; and
\* a client that disconnects changes neither the invocation nor the
\* cache, so the generation of its request ends and is cached as well.
C16_MissEndsCached ==
    /\ \A p \in LiveCalls : (call[p].pc = "await") ~> (call[p].pc = "done")
    /\ [][ \A p \in Calls :
              /\ (call[p].pc # "done" /\ call'[p].pc = "done"
                      /\ ~call'[p].hit)
                    => \E e \in cache' : /\ e.k = CacheKey(call'[p].req)
                                         /\ e.v = call'[p].ret
                                         /\ e.w = now
              /\ (p \in disconnected' /\ p \notin disconnected)
                    => call' = call /\ cache' = cache
          ]_vars

\* the invocation of a client that disconnected while it waited for a
\* provider has returned, and its result is in the cache
C16_Witness ==
    \E p \in disconnected :
        /\ call[p].pc = "done"
        /\ ~call[p].hit
        /\ Len(call[p].reqs) > 0
        /\ \E e \in cache : e.k = KeyOf(p) /\ e.v = call[p].ret

----------------------------------------------------------------------------
(* Properties of the text builders *)

\* the names occur in str in their order, from position `from` on
RECURSIVE InOrderFrom(_, _, _)
InOrderFrom(str, names, from) ==
    IF names = <<>> THEN TRUE
    ELSE \E j \in from..Len(str) :
            /\ str[j] = Head(names)
            /\ InOrderFrom(str, Tail(names), j + 1)

\* the topic stands in str at position i
TopicAt(str, topic, i) ==
    /\ i + Len(topic) - 1 <= Len(str)
    /\ SubSeq(str, i, i + Len(topic) - 1) = topic

\* the declared section names of the five templates
DeclaredStructure(contentType) ==
    CASE contentType = "presentation" ->
            <<"Introduction", "Problem/Opportunity", "Solution", "Benefits",
              "Implementation", "Conclusion">>
      [] contentType = "social" ->
            <<"Hook", "Value Proposition", "Call to Action", "Hashtags">>
      [] contentType = "blog" ->
            <<"Headline", "Introduction", "Main Points", "Examples",
              "Conclusion", "Call to Action">>
      [] contentType = "email" ->
            <<"Subject Line", "Opening", "Value Proposition", "Benefits",
              "Call to Action", "Closing">>
      [] OTHER ->
            <<"Executive Summary", "Introduction", "Main Content",
              "Analysis", "Recommendations", "Conclusion">>

\* C17: every prompt that buildPrompt returns contains the topic as it was
\* given and, after the topic, every section name of the chosen template
\* in the declared order.
C17_PromptHasTopicThenSections ==
    (builder.applied = "buildPrompt" /\ ~builder.out.thrown)
        => LET str == builder.out.v.s
               topic == builder.req.prompt
           IN  /\ builder.out.v.t = "string"
               /\ \E i \in 1..Len(str) :
                     /\ TopicAt(str, topic, i)
                     /\ InOrderFrom(str,
                                    DeclaredStructure(builder.req.contentType),
                                    i + Len(topic))

\* a prompt was built for a social post on a topic with a blank in it
C17_Witness ==
    /\ builder.applied = "buildPrompt"
    /\ builder.req.contentType = "social"
    /\ builder.req.prompt = TopicCSpaceC
    /\ ~builder.out.thrown
    /\ \E i, j \in 1..Len(builder.out.v.s) :
          /\ TopicAt(builder.out.v.s, TopicCSpaceC, i)
          /\ j > i
          /\ builder.out.v.s[j] = "Hashtags"

\* the first chunks of the five skeletons
SkeletonStarts ==
    {"# ", "Ready to transform your approach to ", "# The Ultimate Guide to ",
     "Subject: Transform Your Approach to "}

\* C18: the fallback output starts with the marker [Content in <language>]
\* exactly when the language is not english; the marker [<tone> tone]
\* stands after the language marker (at the start when there is none)
\* exactly when the tone is not professional; the content-type skeleton
\* follows the markers, so with english and professional the output starts
\* with the skeleton.
C18_MarkersOfLanguageAndTone ==
    (builder.applied = "generateFallbackContent"
        /\ builder.out.v.t = "string")
        => LET str == builder.out.v.s
               language == builder.req.language
               tone == builder.req.tone
               afterLanguage == IF language # "english" THEN 3 ELSE 0
               afterTone ==
                   afterLanguage + (IF tone # "professional" THEN 3 ELSE 0)
           IN  /\ (language # "english")
                     <=> (str[1] = "[Content in ")
               /\ language # "english"
                     => str[2] = language /\ str[3] = "]\n\n"
               /\ (tone # "professional")
                     <=> (str[afterLanguage + 1] = "[")
               /\ tone # "professional"
                     => /\ str[afterLanguage + 2] = tone
                        /\ str[afterLanguage + 3] = " tone]\n\n"
               /\ str[afterTone + 1] \in SkeletonStarts
               /\ \A k \in 1..Len(str) :
                     /\ str[k] = "[Content in " => k = 1
                     /\ str[k] = "[" => k = afterLanguage + 1

\* a fallback output in spanish and in a casual tone carries the language
\* marker, then the tone marker, then the skeleton
C18_Witness ==
    /\ builder.applied = "generateFallbackContent"
    /\ builder.req.language = "spanish"
    /\ builder.req.tone = "casual"
    /\ builder.out.v.t = "string"
    /\ SubSeq(builder.out.v.s, 1, 6) =
          <<"[Content in ", "spanish", "]\n\n", "[", "casual", " tone]\n\n">>
    /\ builder.out.v.s[7] \in SkeletonStarts

\* C19: a contentType outside the five known values is handled as
\* document: the prompt of generateContent is the one built from the
\* document template, and the fallback output is the one for document with
\* the same topic, language and tone.
C19_UnknownTypeIsDocument ==
    LET r == builder.req
    IN  r.contentType \notin ContentTypes
          => /\ builder.applied = "buildPrompt"
                   => /\ ~builder.out.thrown
                      /\ builder.out =
                            FullPrompt([r EXCEPT !.contentType = "document"])
             /\ builder.applied = "generateFallbackContent"
                   => builder.out =
                        Return(Fallback([r EXCEPT !.contentType = "document"]))

\* C20: buildPrompt gives, for a language outside the list, the prompt of
\* english and, for a tone outside the list, the prompt of professional.
C20_UnknownIsDefault ==
    LET r == builder.req
    IN  builder.applied = "buildPrompt"
          => /\ r.language \notin Languages
                   => builder.out = FullPrompt([r EXCEPT !.language = "english"])
             /\ r.tone \notin Tones
                   => builder.out =
                        FullPrompt([r EXCEPT !.tone = "professional"])

----------------------------------------------------------------------------
(* Properties of the cache key *)

\* 31 * hash + char wrapped to a signed 32-bit integer, formed on the top
\* 8 bits and the low 24 bits of the unsigned value of hash
WrappedRound(hash, char) ==
    LET low24 == hash % 16777216
        top8 == (hash \div 16777216) % 256
        low == 31 * low24 + char
        top == (31 * top8 + (low \div 16777216)) % 256
    IN  (IF top >= 128 THEN top - 256 ELSE top) * 16777216 + (low % 16777216)

RECURSIVE WrappedHash(_, _)
WrappedHash(str, hash) ==
    IF str = <<>> THEN hash
    ELSE WrappedHash(Tail(str), WrappedRound(hash, charCodeAt(Head(str))))

\* C21: the cache key is contentType-language-tone-hash(topic), where
\* hash(topic) is the decimal form of h, computed from 0 by replacing h
\* with 31 * h + character code wrapped to a signed 32-bit integer for each
\* character in order; h lies in [-2^31, 2^31 - 1], and two computations
\* for the same topic give the same hash.
C21_KeyIsTypeLanguageToneHash ==
    LET f == fingerprint
    IN  /\ f.applied # "nothing"
            => LET h == WrappedHash(f.first.prompt, 0)
               IN  /\ h >= MinInt32 /\ h <= 2147483647
                   /\ f.firstKey =
                         Pieces(f.first.contentType)
                            \o Pieces(f.first.language)
                            \o Pieces(f.first.tone)
                            \o (IF h < 0 THEN <<"", ToString(-h)>>
                                ELSE <<ToString(h)>>)
        /\ (f.applied = "both" /\ f.first.prompt = f.second.prompt)
            => Last(f.firstKey) = Last(f.secondKey)

\* the key of a blog request in english and a professional tone on a
\* topic whose hash is negative, and the same hash for the same topic in a
\* request of another type, language and tone
C21_Witness ==
    /\ fingerprint.applied = "both"
    /\ fingerprint.first.prompt = TopicAa
    /\ fingerprint.second =
            Request(TopicAa, "social", "spanish", "casual")
    /\ fingerprint.firstKey =
            <<"blog", "english", "professional", "", "2052750272">>
    /\ fingerprint.secondKey =
            <<"social", "spanish", "casual", "", "2052750272">>

\* a request whose contentType, language and tone are in the lists of the
\* routes
WellFormed(r) ==
    /\ r.contentType \in ContentTypes
    /\ r.language \in Languages
    /\ r.tone \in Tones

\* C24: two well-formed requests that differ in contentType, language or
\* tone have different cache keys, whatever their topics are, and a lookup
\* for one of them does not find the entry written for the other.
C24_KeysOfDifferentRequestsDiffer ==
    LET f == fingerprint
    IN  ( /\ f.applied = "both"
          /\ WellFormed(f.first) /\ WellFormed(f.second)
          /\ \/ f.first.contentType # f.second.contentType
             \/ f.first.language # f.second.language
             \/ f.first.tone # f.second.tone )
            => /\ f.firstKey # f.secondKey
               /\ f.found = Undefined

\* two well-formed requests on one topic that differ in the tone only got
\* different keys, and the lookup for the second missed
C24_Witness ==
    /\ fingerprint.applied = "both"
    /\ WellFormed(fingerprint.first) /\ WellFormed(fingerprint.second)
    /\ fingerprint.first.prompt = fingerprint.second.prompt
    /\ fingerprint.first.contentType = fingerprint.second.contentType
    /\ fingerprint.first.language = fingerprint.second.language
    /\ fingerprint.first.tone # fingerprint.second.tone
    /\ fingerprint.firstKey # fingerprint.secondKey
    /\ fingerprint.found = Undefined

----------------------------------------------------------------------------
(* Properties of the results of one cache key *)

\* invocation p returns in this step
Returns(p) == call[p].pc # "done" /\ call'[p].pc = "done"

\* C22 as stated: once a result is cached under a key, every invocation
\* with that key that returns before the entry expires, also one that was
\* in flight when the entry was written, returns the entry's value and
\* leaves it in the cache.
C22_OneResultPerWindow ==
    [][ \A p \in Calls : \A e \in cache :
          (Returns(p) /\ e.k = CacheKey(call'[p].req) /\ Alive(e, now))
              => /\ call'[p].ret = e.v
                 /\ \A f \in cache' : f.k = e.k => f.v = e.v
      ]_vars

\* C22, amended: an invocation that starts while its key has an unexpired
\* entry returns the entry's value and leaves the cache as it is; an
\* unexpired entry is replaced only by the result of an invocation with its
\* key that was waiting for a provider, which returns that result.
C22_StartedAfterIsServed ==
    [][ /\ \A p \in Calls : \A e \in cache :
              (Starts(p) /\ e.k = CacheKey(call'[p].req) /\ Alive(e, now))
                  => /\ call'[p].pc = "done"
                     /\ call'[p].hit
                     /\ call'[p].ret = e.v
                     /\ cache' = cache
        /\ \A e \in cache :
              (Alive(e, now) /\ e \notin cache')
                  => \E p \in Calls :
                        /\ Finishes(p)
                        /\ KeyOf(p) = e.k
                        /\ Entries(cache', e.k) =
                              {[k |-> e.k, v |-> call'[p].ret,
                                t |-> now + StdTTL, w |-> now]}
      ]_vars

\* a provider's text was cached under a key by one invocation, and the
\* fallback content of another invocation with that key, in flight at that
\* time, has taken its place
C22_Witness ==
    \E p, q \in Calls :
        /\ p # q
        /\ KeyOf(p) = KeyOf(q)
        /\ call[p].pc = "done" /\ ~call[p].hit
        /\ call[p].res # <<>> /\ call[p].ret = Last(call[p].res)
        /\ FellBack(q)
        /\ call[q].ret # call[p].ret
        /\ Entries(cache, KeyOf(p)) # {}
        /\ \A e \in Entries(cache, KeyOf(p)) : e.v = call[q].ret

\* a value that is neither missing nor empty
NonEmpty(v) ==
    CASE v.t = "undefined" -> FALSE
      [] v.t \in {"string", "array"} -> v.s # <<>>
      [] OTHER -> TRUE

\* C23: a provider call that ends without an error and yields undefined
\* or the empty string is a failure of the provider: the step caches
\* nothing for it and goes on to the next enabled provider or to the
\* fallback; and every value in the cache and every value returned is
\* non-empty.
C23_NoTextIsFailure ==
    /\ [](\A e \in cache : NonEmpty(e.v))
    /\ [](\A p \in Calls : call[p].pc = "done" => NonEmpty(call[p].ret))
    /\ [][ \A p \in Calls : \A completion \in Completions(call[p]) :
              ( /\ ProviderSettles(p, completion)
                /\ ~completion.thrown
                /\ completion.v \in {Undefined, EmptyString} )
                  => /\ Last(call'[p].res) = Undefined
                     /\ IF Len(call[p].reqs) < Len(call[p].chain)
                        THEN /\ call'[p].pc = "await"
                             /\ call'[p].reqs =
                                   Append(call[p].reqs,
                                          call[p].chain[Len(call[p].reqs) + 1])
                             /\ cache' = cache
                        ELSE /\ call'[p].pc = "done"
                             /\ call'[p].ret = Fallback(call[p].req)
                             /\ cache' = CacheSet(cache, KeyOf(p),
                                                  Fallback(call[p].req), now)
          ]_vars

----------------------------------------------------------------------------
(* Properties of POST /batch *)

\* the invocations of the items 1..n, each ended before the next started
OneAfterAnother(n) ==
    [j \in 1..(2 * n) |->
        IF j % 2 = 1 THEN Event("start", (j + 1) \div 2)
        ELSE Event("end", j \div 2)]

\* the answered batch holds one result for each request, in the order of
\* the requests, made by invocations that ran one after another
OneResultEach ==
    /\ Len(batch.results) = Len(batch.items)
    /\ \A i \in 1..Len(batch.items) :
          batch.results[i].request = batch.items[i]
    /\ batch.log = OneAfterAnother(Len(batch.items))

\* items i and j hold the same request
SameRequest(i, j) ==
    BatchArguments(batch.items[i]) = BatchArguments(batch.items[j])

\* result j was served from the cache with no provider request
ServedFromCache(j) ==
    /\ batch.results[j].success
    /\ batch.results[j].hit
    /\ batch.results[j].reqs = <<>>

\* C25 as stated: the requests of a batch are processed one after another
\* in array order, results holds one entry per request in that order, and a
\* request equal to an earlier one of the batch is served from the cache
\* with no provider request.
C25_RepeatedItemIsServedFromCache ==
    (batch.applied = "answered" /\ batch.status = StatusOk)
        => /\ OneResultEach
           /\ \A i, j \in 1..Len(batch.items) :
                 (i < j /\ SameRequest(i, j)) => ServedFromCache(j)

\* C25, amended: the requests of a batch are processed one after another
\* in array order, results holds one entry per request in that order, and a
\* request equal to an earlier one of the batch that was not itself served
\* from the cache is served from the cache with no provider request.
C25_ItemRepeatedAfterMissIsServed ==
    (batch.applied = "answered" /\ batch.status = StatusOk)
        => /\ OneResultEach
           /\ \A i, j \in 1..Len(batch.items) :
                 (i < j /\ SameRequest(i, j) /\ ~batch.results[i].hit)
                    => ServedFromCache(j)

\* a batch of three requests, the third equal to the first: the first got
\* its content from a provider, the second as well, some time later, and
\* the third was served what the first had cached
C25_Witness ==
    /\ batch.applied = "answered"
    /\ batch.status = StatusOk
    /\ Len(batch.items) = 3
    /\ SameRequest(1, 3) /\ ~SameRequest(1, 2)
    /\ ~batch.results[1].hit /\ batch.results[1].reqs # <<>>
    /\ ~batch.results[2].hit /\ batch.results[2].reqs # <<>>
    /\ now > 0
    /\ ServedFromCache(3)
    /\ batch.results[3].content = batch.results[1].content

\* C26: a saved item is read, updated, deleted or exported only with the
\* API key that saved it: a GET, PUT, DELETE or export of an existing item
\* with another API key answers 403 and leaves the content store as it was.
C26_OnlySavingKeyHasAccess ==
    [][\A key \in HeaderKeys \ {Absent}, id \in RequestIds :
          ( /\ MapHas(contentStore, id)
            /\ key # MapGet(ledger.savers, id)
            /\ \/ GetById(key, id)
               \/ \E updates \in UpdateBodies : PutById(key, id, updates)
               \/ DeleteById(key, id)
               \/ \E format \in RequestFormats :
                      ExportById(key, id, format) )
          => /\ reply'.status = StatusForbidden
             /\ contentStore' = contentStore]_vars

\* C27: every item of the content store is stored under the key that is
\* its id field, and its apiKey is the key that saved it.
C27_StoredUnderIdOwnedBySaver ==
    \A e \in contentStore :
        /\ e.v.id = e.k
        /\ MapHas(ledger.savers, e.k)
        /\ e.v.apiKey = MapGet(ledger.savers, e.k)

\* C28: every POST /save that answers 201 adds an item to the content
\* store and replaces none: the store has one item more and every item
\* it held is still there, unchanged.
C28_SaveAddsNeverReplaces ==
    [][\A key \in HeaderKeys, b \in SaveBodies :
          (PostSave(key, b) /\ reply'.status = StatusCreated)
          => /\ Cardinality(contentStore') = Cardinality(contentStore) + 1
             /\ contentStore \subseteq contentStore']_vars

\* C29: after a regenerate-key that succeeds for a user, validate-key and
\* usage answer 401 for the key the user had, the new key is in the key
\* map with that user as its value, and at every time at most one key of
\* the key map belongs to a registered user.
C29_OldKeyOutNewKeyIn ==
    /\ [](\A i \in DOMAIN users :
             Cardinality({e \in apiKeys : e.v = users[i].v}) <= 1)
    /\ [][\A t \in ledger.tokens :
             (RegenerateKey(t.token) /\ reply'.status = StatusOk)
             => /\ ValidateKeyStatus(apiKeys', objects[t.ref].apiKey)
                   = StatusUnauthorized
                /\ UsageStatus(apiKeys', objects[t.ref].apiKey)
                   = StatusUnauthorized
                /\ MapHas(apiKeys', reply'.key)
                /\ MapGet(apiKeys', reply'.key) = t.ref]_vars

\* C30: a guest key is limited to 10 requests: after 10 requests made
\* with one guest key, a further request with it is refused (it is not
\* passed on to generateContent).
C30_GuestKeyIsLimited ==
    [][\A ip \in Ips, apiKey \in GuestKeys, b \in GuestBodies,
          served \in {StatusOk, StatusError} :
          ( /\ AiGenerate(ip, apiKey, b, served)
            /\ objects[MapGet(apiKeys, apiKey)].plan = "demo"
            /\ ledger.made[apiKey] >= GuestLimit )
          => reply'.status \notin {StatusOk, StatusError}]_vars

====

